---- MODULE Spec2Model ----
(***************************************************************************)
(* Threat-intelligence ingestion pipeline: the deduplicator                *)
(* (tools/deduplication.py), the NVD adapter's sync state                  *)
(* (tools/sources/nvd_fetcher.py) and the orchestrator (tools/pipeline.py).*)
(*                                                                         *)
(* A record (a Python dict) is a function from a finite set of attribute   *)
(* names to values.  String attributes hold strings, score attributes hold *)
(* integers (tenths), list attributes hold sequences of strings.  None is  *)
(* NoneStr / NoneNum / NoneList according to the attribute's type.         *)
(***************************************************************************)
EXTENDS Integers, Sequences, FiniteSets, TLC

\* ------------------------------------------------------------------ bounds
\* Longest item list handed to one deduplicate call.
MaxItems == 2
\* Deduplicate calls between two resets.
MaxCalls == 2

\* ----------------------------------------------------------------- records
NoneStr == "None"
NoneNum == -1
NoneList == <<"None">>

EmptyRec == [f \in {} |-> NoneStr]

Has(r, f) == f \in DOMAIN r

\* dict.get(f, d)
Get(r, f, d) == IF f \in DOMAIN r THEN r[f] ELSE d

\* d[f] = v on a copy
Put(r, f, v) == [x \in (DOMAIN r) \cup {f} |-> IF x = f THEN v ELSE r[x]]

\* str.lower() on the source tags and descriptions of the model
Lower(s) ==
    CASE s = "NVD" -> "nvd"
      [] s = "SQL Injection in X" -> "sql injection in x"
      [] OTHER -> s

\* list(set(xs)): the elements without repetition, in one fixed order
RECURSIVE SetToSeq(_)
SetToSeq(S) ==
    IF S = {} THEN <<>>
    ELSE LET x == CHOOSE y \in S : TRUE IN <<x>> \o SetToSeq(S \ {x})

Range(s) == {s[i] : i \in 1..Len(s)}

\* --------------------------------------------------------------- authority
AUTHORITY_SCORES ==
    [s \in {"cisa_kev", "nvd", "mitre_attack", "mitre_defend", "epss", "otx",
            "abuse_ch_urlhaus", "abuse_ch_malwarebazaar",
            "abuse_ch_feodotracker", "abuse_ch_threatfox", "community",
            "unknown"} |->
        CASE s = "cisa_kev" -> 10
          [] s \in {"nvd", "mitre_attack"} -> 9
          [] s \in {"mitre_defend", "epss"} -> 8
          [] s = "otx" -> 7
          [] s = "community" -> 5
          [] s = "unknown" -> 1
          [] OTHER -> 6]

\* get_authority: the table's entry for the lowercased source, 1 when absent
get_authority(item) ==
    LET source == Lower(Get(item, "source", "unknown"))
    IN IF source \in DOMAIN AUTHORITY_SCORES THEN AUTHORITY_SCORES[source] ELSE 1

\* item.get("source", "unknown").lower() raises AttributeError on None
AuthorityRaises(items) ==
    \E i \in 1..Len(items) : Get(items[i], "source", "unknown") = NoneStr

\* Position at which index i is inserted into the order built so far: after
\* every index whose authority is at least its own (the sort is stable).
RECURSIVE InsertByAuthority(_, _, _)
InsertByAuthority(order, i, items) ==
    IF order = <<>> THEN <<i>>
    ELSE IF get_authority(items[Head(order)]) >= get_authority(items[i])
         THEN <<Head(order)>> \o InsertByAuthority(Tail(order), i, items)
         ELSE <<i>> \o order

RECURSIVE SortPrefix(_, _)
SortPrefix(items, n) ==
    IF n = 0 THEN <<>>
    ELSE InsertByAuthority(SortPrefix(items, n - 1), n, items)

\* sorted(items, key=get_authority, reverse=True), as the sequence of the
\* input positions in sorted order
SortByAuthority(items) == SortPrefix(items, Len(items))

\* ------------------------------------------------------------ fingerprint
\* mmh3.hash(description.lower().strip()[:200]) is modelled by the
\* normalised text, hashlib.sha256 of the joined key parts by the sequence
\* of key parts itself (both taken as collision free); the full-item
\* fallback keeps the item.
KeyParts(item) ==
    LET primary ==
            (IF Has(item, "cve_id") THEN <<<<"cve", item["cve_id"]>>>> ELSE <<>>)
         \o (IF Has(item, "indicator") THEN <<<<"ioc", item["indicator"]>>>> ELSE <<>>)
         \o (IF Has(item, "pulse_id") THEN <<<<"pulse", item["pulse_id"]>>>> ELSE <<>>)
         \o (IF Has(item, "md5") \/ Has(item, "sha256")
             THEN <<<<"hash",
                      IF Get(item, "sha256", NoneStr) \notin {NoneStr, ""}
                      THEN item["sha256"] ELSE Get(item, "md5", NoneStr)>>>>
             ELSE <<>>)
        secondary ==
            (IF Has(item, "description")
             THEN <<<<"desc", Lower(item["description"])>>>> ELSE <<>>)
         \o (IF Has(item, "title") \/ Has(item, "name")
             THEN <<<<"title",
                      Lower(IF Get(item, "title", NoneStr) \notin {NoneStr, ""}
                            THEN item["title"] ELSE Get(item, "name", "")) >>>>
             ELSE <<>>)
    IN IF primary # <<>> THEN primary ELSE secondary

\* item["description"].lower() / title.lower() raise AttributeError on None
HashRaises(item) ==
    /\ ~(\E f \in {"cve_id", "indicator", "pulse_id", "md5", "sha256"} : Has(item, f))
    /\ \/ Has(item, "description") /\ item["description"] = NoneStr
       \/ /\ Has(item, "title") \/ Has(item, "name")
          /\ Get(item, "title", NoneStr) \in {NoneStr, ""}
          /\ Get(item, "name", "") = NoneStr

GenerateHash(item) ==
    IF KeyParts(item) # <<>>
    THEN [parts |-> KeyParts(item), full |-> EmptyRec]
    ELSE [parts |-> <<>>, full |-> item]

\* ---------------------------------------------------------- fuzzy matching
similarity_threshold == 85

\* fuzz.token_sort_ratio on the descriptions of the model (0..100): equal
\* texts score 100, texts that differ only in letter case 94, others 30.
token_sort_ratio(a, b) ==
    IF a = b THEN 100 ELSE IF Lower(a) = Lower(b) THEN 94 ELSE 30

\* First position of the sequence holding x (list.index), 0 when absent
IndexOf(s, x) ==
    IF \E i \in 1..Len(s) : s[i] = x
    THEN CHOOSE i \in 1..Len(s) : s[i] = x /\ \A j \in 1..(i - 1) : s[j] # x
    ELSE 0

\* _find_similar: the position in existing_items of the item returned, 0
\* for None.
FindSimilar(item, existing_items) ==
    LET n == Len(existing_items)
        byId == {i \in 1..n :
                    Get(existing_items[i], "cve_id", NoneStr) = item["cve_id"]}
        withDesc == {i \in 1..n :
                        Get(existing_items[i], "description", NoneStr)
                            \notin {NoneStr, ""}}
        score(i) == token_sort_ratio(item["description"],
                                     existing_items[i]["description"])
        best == CHOOSE i \in withDesc :
                    \A j \in withDesc :
                        score(i) > score(j) \/ (score(i) = score(j) /\ i <= j)
        \* matches[0][0] is a description text; index() finds its first holder
        firstSame == CHOOSE i \in withDesc :
                        /\ existing_items[i]["description"]
                              = existing_items[best]["description"]
                        /\ \A j \in withDesc :
                              existing_items[j]["description"]
                                  = existing_items[best]["description"] => i <= j
    IN IF n = 0 THEN 0
       ELSE IF Has(item, "cve_id") /\ byId # {}
            THEN CHOOSE i \in byId : \A j \in byId : i <= j
       ELSE IF /\ Has(item, "description")
               /\ item["description"] # NoneStr
               /\ withDesc # {}
               /\ score(best) >= similarity_threshold
            THEN firstSame
       ELSE 0

\* ------------------------------------------------------------------ merge
list_fields == <<"references", "tags", "cwe_ids", "attack_techniques">>
score_fields == <<"cvss_v3_score", "cvss_v2_score", "epss_score">>

\* An element of a list attribute that is a dict (an NVD reference object):
\* set() cannot hold it.
Unhashable(x) == x = "{ref}"

\* set(merged.get(field, []) + secondary.get(field, [])) raises TypeError
\* when a list is None or holds an unhashable element
ListMergeRaises(merged, secondary) ==
    \E i \in 1..Len(list_fields) :
        LET f == list_fields[i] IN
        /\ Has(secondary, f) /\ Has(merged, f)
        /\ \/ merged[f] = NoneList
           \/ secondary[f] = NoneList
           \/ \E x \in Range(merged[f]) \cup Range(secondary[f]) : Unhashable(x)

\* max(merged.get(field, 0), secondary.get(field, 0)) raises TypeError when
\* either value is None
ScoreMergeRaises(merged, secondary) ==
    \E i \in 1..Len(score_fields) :
        LET f == score_fields[i] IN
        /\ Has(secondary, f)
        /\ (Get(merged, f, 0) = NoneNum \/ secondary[f] = NoneNum)

\* set(merged.get("sources", [merged.get("source", "unknown")])) raises
\* nothing on strings and None; the list becomes list(set(...)).
MergeSources(merged, secondary) ==
    LET old == IF Has(merged, "sources") THEN Range(merged["sources"])
               ELSE {Get(merged, "source", "unknown")}
    IN Put(merged, "sources",
           SetToSeq(old \cup {Get(secondary, "source", "unknown")}))

RECURSIVE MergeLists(_, _, _)
MergeLists(merged, secondary, i) ==
    IF i > Len(list_fields) THEN merged
    ELSE LET f == list_fields[i]
             m == IF Has(secondary, f) /\ ~Has(merged, f)
                  THEN Put(merged, f, secondary[f])
                  ELSE IF Has(secondary, f) /\ Has(merged, f)
                  THEN Put(merged, f,
                           SetToSeq(Range(merged[f]) \cup Range(secondary[f])))
                  ELSE merged
         IN MergeLists(m, secondary, i + 1)

Max(a, b) == IF b > a THEN b ELSE a

RECURSIVE MergeScores(_, _, _)
MergeScores(merged, secondary, i) ==
    IF i > Len(score_fields) THEN merged
    ELSE LET f == score_fields[i]
             m == IF Has(secondary, f)
                  THEN Put(merged, f, Max(Get(merged, f, 0), secondary[f]))
                  ELSE merged
         IN MergeScores(m, secondary, i + 1)

\* for key, value in secondary.items(): if key not in merged and value is
\* not None: merged[key] = value
IsNone(k, v) ==
    IF k \in Range(score_fields) THEN v = NoneNum
    ELSE IF k \in Range(list_fields) \cup {"sources", "deduplication"}
         THEN v = NoneList
    ELSE v = NoneStr

AddMissing(merged, secondary) ==
    LET add == {k \in DOMAIN secondary :
                    k \notin DOMAIN merged /\ ~IsNone(k, secondary[k])}
    IN [k \in (DOMAIN merged) \cup add |->
            IF k \in DOMAIN merged THEN merged[k] ELSE secondary[k]]

\* _merge_items raises (after the pair is appended to merge_history)
MergeRaises(primary, secondary, strategy) ==
    /\ strategy.merge_fields
    /\ LET m0 == IF strategy.preserve_all_sources
                 THEN MergeSources(primary, secondary) ELSE primary
       IN \/ ListMergeRaises(m0, secondary)
          \/ ScoreMergeRaises(m0, secondary)

\* _merge_items: the merged record (merge_time left out)
MergeItems(primary, secondary, strategy) ==
    LET m0 == IF strategy.preserve_all_sources
              THEN MergeSources(primary, secondary) ELSE primary
        m1 == IF strategy.merge_fields
              THEN AddMissing(MergeScores(MergeLists(m0, secondary, 1),
                                          secondary, 1), secondary)
              ELSE m0
    IN Put(m1, "deduplication",
           <<Get(primary, "source", NoneStr), Get(secondary, "source", NoneStr)>>)

\* ------------------------------------------------------------ deduplicate
\* DuplicateStrategy
Strategy(n, mf, kha, agg, pas) ==
    [name |-> n, merge_fields |-> mf, keep_highest_authority |-> kha,
     aggregate_scores |-> agg, preserve_all_sources |-> pas]

\* The strategy deduplicate builds when it is given None
DefaultStrategy == Strategy("default", TRUE, TRUE, FALSE, TRUE)
\* DuplicateStrategy(name=...) with the dataclass defaults
PlainStrategy == Strategy("plain", FALSE, TRUE, FALSE, TRUE)
\* The orchestrator's strategy of the nvd source
NvdStrategy == Strategy("nvd", TRUE, TRUE, TRUE, TRUE)

\* `h in self.bloom_filter`: every added fingerprint is reported present; a
\* fingerprint of fp is reported present although it was never added (a
\* false positive), which needs at least one bit set.
BloomContains(st, h, fp) ==
    h \in st.bloom_filter \/ (h \in fp /\ st.bloom_filter # {})

SetAt(s, i, v) == [s EXCEPT ![i] = v]

\* C39 sensitivity: the cached record is merged and stored again even when
\* it is not among the unique items of this call
ExactHit_merges_cached(st, item, h, strategy) ==
    LET dup == [st EXCEPT !.duplicates = Append(@, item)]
        matching_item == st.item_cache[h]
        idx == IndexOf(st.unique_items, matching_item)
        logged == [dup EXCEPT !.merge_history =
                      Append(@, <<GenerateHash(matching_item), GenerateHash(item)>>)]
        merged == MergeItems(matching_item, item, strategy)
    IN IF strategy.merge_fields /\ matching_item # EmptyRec
       THEN IF MergeRaises(matching_item, item, strategy)
            THEN [logged EXCEPT !.raised = TRUE]
            ELSE [logged EXCEPT !.merged_items = Append(@, merged),
                                !.unique_items =
                                    IF idx > 0 THEN SetAt(@, idx, merged) ELSE @,
                                !.item_cache = [@ EXCEPT ![h] = merged]]
       ELSE dup

\* The exact-duplicate branch of the loop body
ExactHit(st, item, h, strategy) ==
    LET dup == [st EXCEPT !.duplicates = Append(@, item)]
        matching_item == st.item_cache[h]
        idx == IndexOf(st.unique_items, matching_item)
        logged == [dup EXCEPT !.merge_history =
                      Append(@, <<GenerateHash(matching_item), GenerateHash(item)>>)]
        merged == MergeItems(matching_item, item, strategy)
    IN IF strategy.merge_fields /\ matching_item # EmptyRec /\ idx > 0
       THEN IF MergeRaises(matching_item, item, strategy)
            THEN [logged EXCEPT !.raised = TRUE]
            ELSE [logged EXCEPT !.merged_items = Append(@, merged),
                                !.unique_items = SetAt(@, idx, merged),
                                !.item_cache = [@ EXCEPT ![h] = merged]]
       ELSE dup

\* The branch taken when _find_similar returned the item at position sim
SimilarHit(st, item, sim, strategy) ==
    LET similar_item == st.unique_items[sim]
        idx == IndexOf(st.unique_items, similar_item)
        logged == [st EXCEPT !.merge_history =
                      Append(@, <<GenerateHash(similar_item), GenerateHash(item)>>)]
        merged == MergeItems(similar_item, item, strategy)
    IN IF strategy.merge_fields
       THEN IF MergeRaises(similar_item, item, strategy)
            THEN [logged EXCEPT !.raised = TRUE]
            ELSE [logged EXCEPT !.merged_items = Append(@, merged),
                                !.unique_items = SetAt(@, idx, merged)]
       ELSE [st EXCEPT !.duplicates = Append(@, item)]

\* C38 sensitivity: the record is not put into item_cache
AddUnique_not_cached(st, item, h, origin) ==
    [st EXCEPT !.unique_items = Append(@, item),
               !.unique_origin = Append(@, origin),
               !.exact_hashes = @ \cup {h},
               !.bloom_filter = @ \cup {h}]

\* "Add to unique items"
AddUnique(st, item, h, origin) ==
    [st EXCEPT !.unique_items = Append(@, item),
               !.unique_origin = Append(@, origin),
               !.exact_hashes = @ \cup {h},
               !.bloom_filter = @ \cup {h},
               !.item_cache = [x \in (DOMAIN @) \cup {h} |->
                                  IF x = h THEN item ELSE @[x]]]

\* What one iteration of the loop met and did (history): whether the exact
\* index and the approximate index held the fingerprint, whether
\* _find_similar was called, the branch taken and how many unique items
\* there were before it.
Step(origin, h, exact, bloom, fuzzy, branch, uniques) ==
    [origin |-> origin, hash |-> h, exact |-> exact, bloom |-> bloom,
     fuzzy |-> fuzzy, branch |-> branch, uniques |-> uniques]

Logged(st, step) == [st EXCEPT !.steps = Append(@, step)]

\* C31 sensitivity: _find_similar is consulted without asking the
\* approximate index first
ScanItem_ungated(st, item, origin, strategy, fp) ==
    LET h == GenerateHash(item)
        sim == FindSimilar(item, st.unique_items)
        exact == h \in st.exact_hashes
        bloom == BloomContains(st, h, fp)
        at(branch, fuzzy) ==
            Step(origin, h, exact, bloom, fuzzy, branch, Len(st.unique_items))
    IN IF st.raised THEN st
       ELSE IF HashRaises(item)
            THEN [st EXCEPT !.raised = TRUE,
                            !.steps = Append(@, Step(origin, h, FALSE, FALSE,
                                                     FALSE, "raised",
                                                     Len(st.unique_items)))]
       ELSE IF exact
            THEN Logged(ExactHit(st, item, h, strategy), at("exact", FALSE))
       ELSE IF sim > 0
            THEN Logged(SimilarHit(st, item, sim, strategy), at("similar", TRUE))
       ELSE Logged(AddUnique(st, item, h, origin), at("unique", TRUE))

\* One iteration of `for item in sorted_items`; origin is the item's
\* position in the input list.
ScanItem(st, item, origin, strategy, fp) ==
    LET h == GenerateHash(item)
        sim == FindSimilar(item, st.unique_items)
        exact == h \in st.exact_hashes
        bloom == BloomContains(st, h, fp)
        at(branch, fuzzy) ==
            Step(origin, h, exact, bloom, fuzzy, branch, Len(st.unique_items))
    IN IF st.raised THEN st
       ELSE IF HashRaises(item)
            THEN [st EXCEPT !.raised = TRUE,
                            !.steps = Append(@, Step(origin, h, FALSE, FALSE,
                                                     FALSE, "raised",
                                                     Len(st.unique_items)))]
       ELSE IF exact
            THEN Logged(ExactHit(st, item, h, strategy), at("exact", FALSE))
       ELSE IF bloom /\ sim > 0
            THEN Logged(SimilarHit(st, item, sim, strategy), at("similar", TRUE))
       ELSE Logged(AddUnique(st, item, h, origin), at("unique", bloom))

RECURSIVE Scan(_, _, _, _, _, _)
Scan(st, items, order, k, strategy, fp) ==
    IF k > Len(order) THEN st
    ELSE Scan(ScanItem(st, items[order[k]], order[k], strategy, fp),
              items, order, k + 1, strategy, fp)

\* deduplicate(items, strategy) on the deduplicator state d
\* (exact_hashes, bloom_filter, item_cache, merge_history): the state it
\* leaves and the lists of its result; raised when an exception left it.
DeduplicateOn(d, items, strategy, fp) ==
    LET st0 == [exact_hashes |-> d.exact_hashes,
                bloom_filter |-> d.bloom_filter,
                item_cache |-> d.item_cache,
                merge_history |-> d.merge_history,
                unique_items |-> <<>>, unique_origin |-> <<>>,
                duplicates |-> <<>>, merged_items |-> <<>>,
                raised |-> FALSE, steps |-> <<>>]
    IN IF AuthorityRaises(items) THEN [st0 EXCEPT !.raised = TRUE]
       ELSE Scan(st0, items, SortByAuthority(items), 1, strategy, fp)

\* ================================================================== state
VARIABLES
    \* IntelligentDeduplicator
    exact_hashes,       \* set of fingerprints
    bloom_filter,       \* fingerprints added to the approximate index
    bloom_fp,           \* fingerprints the approximate index reports falsely
    item_cache,         \* fingerprint -> retained record
    merge_history,      \* sequence of <<primary hash, secondary hash>>
    \* the latest deduplicate call on it
    calls,              \* calls since construction or reset
    last,               \* its arguments and what it returned
    seen_before,        \* fingerprints of the unique_items of earlier calls
    shadow,             \* a deduplicator constructed at the latest reset and
                        \* given the same calls since (history)
    \* PipelineOrchestrator
    sources,            \* source name -> [enabled, fetcher]
    max_concurrent_sources,
    fetch_semaphore,    \* free slots of asyncio.Semaphore
    stats,              \* the five counters
    pc,                 \* where run_fetch_cycle / save_results stands
    cycle,              \* locals of the running coroutine
    task,               \* source name -> state of its fetch task
    fetch_results,      \* source name -> what its fetch task returned
    \* NVDFetcher
    sync_state,         \* in memory
    sync_file,          \* data/nvd_sync_state.json
    fetch,              \* locals of the fetch in progress
    \* environment
    now,                \* the clock read by datetime.utcnow()
    processed_files,    \* data/processed/<source>/<source>_<timestamp>.json
    quality_files,      \* data/quality_reports/<source>_<timestamp>.json
    hist,               \* what the latest cycle did (history)
    \* PipelineOrchestrator.run
    running,            \* self.running
    run_pc,             \* where run stands
    run_hist,           \* what stop and run did (history)
    \* SourceQualityAnalyzer
    history,            \* source id -> its reports, oldest first
    history_file,       \* data/quality_history.json
    appended,           \* source id -> reports ever stored (history)
    analysis,           \* the latest analyze_source call (history)
    trend_call,         \* the latest _analyze_trend call made directly (history)
    \* NVDFetcher._rate_limit
    limiter             \* last_request_time, the event loop's clock, the
                        \* callers inside _rate_limit and the requests sent

dedupVars == <<exact_hashes, bloom_filter, bloom_fp, item_cache,
               merge_history, calls, last, seen_before, shadow>>

pipeVars == <<sources, max_concurrent_sources, fetch_semaphore, stats, pc,
              cycle, task, fetch_results, sync_state, sync_file, fetch, now,
              processed_files, quality_files, hist>>

runVars == <<running, run_pc, run_hist>>

qualityVars == <<history, history_file, appended, analysis, trend_call>>

rateVars == <<limiter>>

vars == <<dedupVars, pipeVars, runVars, qualityVars, rateVars>>

\* ---------------------------------------------------------------- inputs
RA == [cve_id |-> "CVE-1", source |-> "nvd",
       description |-> "sql injection in x", cvss_v3_score |-> 75]
RB == [cve_id |-> "CVE-1", source |-> "cisa_kev", description |-> "kev entry"]
RC == [cve_id |-> "CVE-1", source |-> "mitre_attack",
       description |-> "attack note", tags |-> <<"a">>]
RD == [cve_id |-> "CVE-1", indicator |-> "10.0.0.1", source |-> "otx"]
RE == [cve_id |-> "CVE-2", source |-> "community"]
\* Another CVE whose description differs from RA's in letter case only
RG == [cve_id |-> "CVE-3", source |-> "nvd",
       description |-> "SQL Injection in X"]

Records == {RA, RB, RC, RD, RE, RG}

Strategies == {DefaultStrategy, PlainStrategy, NvdStrategy}

\* False positives of the approximate index a run may meet
MaxFalsePositives == 1

SeqsUpTo(S, n) == UNION {[1..k -> S] : k \in 0..n}

ItemLists == SeqsUpTo(Records, MaxItems)

Fingerprints == {GenerateHash(r) : r \in Records}

\* ---------------------------------------------------------------- actions
NoCall == [called |-> FALSE, fresh |-> TRUE, raised |-> FALSE,
           items |-> <<>>, strategy |-> DefaultStrategy,
           unique_items |-> <<>>, unique_origin |-> <<>>,
           duplicates |-> <<>>, merged_items |-> <<>>,
           hashes_before |-> {}, again |-> FALSE, first_unique |-> <<>>,
           steps |-> <<>>]

\* IntelligentDeduplicator(): nothing is held
NewDeduplicator ==
    [exact_hashes |-> {}, bloom_filter |-> {}, item_cache |-> EmptyRec,
     merge_history |-> <<>>]

\* what a deduplicate call returned (or that it raised)
Returned(r) ==
    [raised |-> r.raised,
     unique_items |-> IF r.raised THEN <<>> ELSE r.unique_items,
     duplicates |-> IF r.raised THEN <<>> ELSE r.duplicates,
     merged_items |-> IF r.raised THEN <<>> ELSE r.merged_items]

NoShadow == [active |-> FALSE, d |-> NewDeduplicator,
             result |-> Returned([raised |-> TRUE])]

\* the deduplicator constructed at the latest reset is given the call too
ShadowAfter(sh, items, strategy, fp) ==
    IF ~sh.active THEN sh
    ELSE LET r == DeduplicateOn(sh.d, items, strategy, fp) IN
         [active |-> TRUE,
          d |-> [exact_hashes |-> r.exact_hashes, bloom_filter |-> r.bloom_filter,
                 item_cache |-> r.item_cache, merge_history |-> r.merge_history],
          result |-> Returned(r)]

\* IntelligentDeduplicator.__init__
InitDedup ==
    /\ exact_hashes = {}
    /\ bloom_filter = {}
    /\ bloom_fp = {}
    /\ item_cache = EmptyRec
    /\ merge_history = <<>>
    /\ calls = 0
    /\ last = NoCall
    /\ seen_before = {}
    /\ shadow = NoShadow

DedupState ==
    [exact_hashes |-> exact_hashes, bloom_filter |-> bloom_filter,
     item_cache |-> item_cache, merge_history |-> merge_history]

UniqueFingerprints(call) ==
    {GenerateHash(call.unique_items[i]) : i \in 1..Len(call.unique_items)}

\* deduplicate(items, strategy); fp is what the approximate index reports
\* falsely from now on (it only grows until the filter is rebuilt).
DeduplicateCall(items, strategy, fp) ==
    LET r == DeduplicateOn(DedupState, items, strategy, fp) IN
    /\ bloom_fp \subseteq fp
    /\ exact_hashes' = r.exact_hashes
    /\ bloom_filter' = r.bloom_filter
    /\ bloom_fp' = fp
    /\ item_cache' = r.item_cache
    /\ merge_history' = r.merge_history
    /\ calls' = calls + 1
    /\ seen_before' = seen_before \cup UniqueFingerprints(last)
    /\ shadow' = ShadowAfter(shadow, items, strategy, fp)
    /\ last' = [called |-> TRUE, fresh |-> (calls = 0), raised |-> r.raised,
                items |-> items, strategy |-> strategy,
                unique_items |-> IF r.raised THEN <<>> ELSE r.unique_items,
                unique_origin |-> IF r.raised THEN <<>> ELSE r.unique_origin,
                duplicates |-> IF r.raised THEN <<>> ELSE r.duplicates,
                merged_items |-> IF r.raised THEN <<>> ELSE r.merged_items,
                hashes_before |-> exact_hashes,
                again |-> FALSE, first_unique |-> <<>>, steps |-> r.steps]

\* deduplicate called on a deduplicator of its own
Deduplicate(items, strategy, fp) ==
    /\ calls < MaxCalls
    /\ DeduplicateCall(items, strategy, fp)

\* C26 sensitivity: exact_hashes.clear() is missing
Cleared_hashes_kept(d) ==
    [exact_hashes |-> d.exact_hashes, bloom_filter |-> {},
     item_cache |-> EmptyRec, merge_history |-> <<>>]

\* what reset leaves: a filter rebuilt with the same capacity and error
\* rate, the three containers cleared
Cleared(d) ==
    [exact_hashes |-> {}, bloom_filter |-> {}, item_cache |-> EmptyRec,
     merge_history |-> <<>>]

\* reset()
Reset ==
    /\ calls > 0
    /\ exact_hashes' = Cleared(DedupState).exact_hashes
    /\ bloom_filter' = Cleared(DedupState).bloom_filter
    /\ bloom_fp' = {}
    /\ item_cache' = Cleared(DedupState).item_cache
    /\ merge_history' = Cleared(DedupState).merge_history
    /\ calls' = 0
    /\ last' = NoCall
    /\ seen_before' = {}
    /\ shadow' = [NoShadow EXCEPT !.active = TRUE]

FalsePositiveSets ==
    {S \in SUBSET Fingerprints : Cardinality(S) <= MaxFalsePositives}

DedupNext ==
    \/ \E items \in ItemLists, strategy \in Strategies, fp \in FalsePositiveSets :
          Deduplicate(items, strategy, fp)
    \/ Reset

\* ----------------------------------------------- one call on fresh state
\* Longest item list handed to a deduplicator that holds nothing yet
MaxFreshItems == 3

\* Records of one CVE from sources of different authority, a record without
\* source tag value, and a record without any fingerprintable attribute
RF == [cve_id |-> "CVE-1", indicator |-> "10.0.0.1", source |-> "cisa_kev"]
RH == [cve_id |-> "CVE-1", source |-> "community", cvss_v3_score |-> 90]
RN == [cve_id |-> "CVE-2", source |-> NoneStr]
RX == [source |-> "nvd", severity |-> "high"]
\* A record that arrives with a sources list of its own
RS == [cve_id |-> "CVE-1", source |-> "nvd", sources |-> <<"mitre_attack">>]

\* A record of the most authoritative source whose description is None
RW == [cve_id |-> "CVE-1", source |-> "cisa_kev", description |-> NoneStr]

FreshRecords == {RA, RB, RF, RH, RN, RX, RS, RW, RG}

\* DuplicateStrategy(name=..., keep_highest_authority=False)
AsGivenStrategy == Strategy("as_given", FALSE, FALSE, FALSE, TRUE)

FreshStrategies == {DefaultStrategy, AsGivenStrategy}

FreshLists == SeqsUpTo(FreshRecords, MaxFreshItems)

FreshFalsePositiveSets ==
    {S \in SUBSET {GenerateHash(r) : r \in FreshRecords} :
        Cardinality(S) <= MaxFalsePositives}

\* deduplicate on a deduplicator that was just constructed or reset
DeduplicateFresh(items, strategy, fp) ==
    /\ calls = 0
    /\ DeduplicateCall(items, strategy, fp)

\* result = deduplicate(items); reset(); deduplicate(result.unique_items):
\* the second pass of a caller that feeds a result back in
DeduplicateAgain(fp) ==
    LET fresh == Cleared(DedupState)
        r == DeduplicateOn(fresh, last.unique_items, last.strategy, fp)
    IN
    /\ last.called /\ last.fresh /\ ~last.raised /\ ~last.again
    /\ exact_hashes' = r.exact_hashes
    /\ bloom_filter' = r.bloom_filter
    /\ bloom_fp' = fp
    /\ item_cache' = r.item_cache
    /\ merge_history' = r.merge_history
    /\ calls' = 1
    /\ seen_before' = {}
    /\ shadow' = ShadowAfter([NoShadow EXCEPT !.active = TRUE],
                             last.unique_items, last.strategy, fp)
    /\ last' = [called |-> TRUE, fresh |-> TRUE, raised |-> r.raised,
                items |-> last.unique_items, strategy |-> last.strategy,
                unique_items |-> IF r.raised THEN <<>> ELSE r.unique_items,
                unique_origin |-> IF r.raised THEN <<>> ELSE r.unique_origin,
                duplicates |-> IF r.raised THEN <<>> ELSE r.duplicates,
                merged_items |-> IF r.raised THEN <<>> ELSE r.merged_items,
                hashes_before |-> {},
                again |-> TRUE, first_unique |-> last.unique_items,
                steps |-> r.steps]

FreshNext ==
    \/ \E items \in FreshLists, strategy \in FreshStrategies,
          fp \in FreshFalsePositiveSets : DeduplicateFresh(items, strategy, fp)
    \/ \E fp \in FreshFalsePositiveSets : DeduplicateAgain(fp)
    \/ Reset

\* ============================================================ orchestrator
\* Cycles (and direct save_results calls) a run makes
MaxCycles == 2
\* Largest max_concurrent_sources a run is constructed with
MaxConcurrent == 2
\* Pages one fetch reads at most
MaxPages == 2
\* Ticks of the clock
MaxClock == 1

\* self.sources, in insertion order
SourceNames == <<"nvd", "cisa_kev", "alienvault_otx">>

Sources == Range(SourceNames)

\* _configure_sources: only nvd has a fetcher and is enabled
ConfiguredSources ==
    [s \in Sources |-> [enabled |-> (s = "nvd"), fetcher |-> (s = "nvd")]]

\* the strategy _configure_sources gives each source
SourceStrategy(s) ==
    CASE s = "nvd" -> NvdStrategy
      [] s = "cisa_kev" -> Strategy("cisa_kev", TRUE, TRUE, FALSE, TRUE)
      [] OTHER -> Strategy("alienvault_otx", TRUE, TRUE, FALSE, TRUE)

InitStats ==
    [total_items_fetched |-> 0, total_unique_items |-> 0,
     total_duplicates |-> 0, fetch_cycles |-> 0, errors |-> 0]

\* asdict(CVEData) of the records the NVD API serves here: every attribute
\* of the dataclass is present, None where the API gave nothing
NA == [cve_id |-> "CVE-1", published |-> "2024-01-01",
       last_modified |-> "2024-01-02", description |-> "sql injection in x",
       cvss_v3_score |-> 75, cvss_v2_score |-> NoneNum,
       cwe_ids |-> <<"CWE-79">>, references |-> <<"{ref}">>]
NC == [cve_id |-> "CVE-2", published |-> "2024-01-03",
       last_modified |-> "2024-01-04", description |-> "No description available",
       cvss_v3_score |-> 50, cvss_v2_score |-> 40,
       cwe_ids |-> <<>>, references |-> <<>>]

NvdRecords == {NA, NC}

NvdFingerprints == {GenerateHash(r) : r \in NvdRecords}

NvdFalsePositiveSets ==
    {S \in SUBSET NvdFingerprints : Cardinality(S) <= MaxFalsePositives}

\* _load_sync_state when data/nvd_sync_state.json does not exist
InitSyncState == [last_sync |-> NoneNum, total_processed |-> 0]

NoFile == [exists |-> FALSE, complete |-> FALSE,
           last_sync |-> NoneNum, total_processed |-> 0]

NoFetch == [start_date |-> NoneNum, end_date |-> NoneNum, all_cves |-> <<>>]

\* the window _fetch_date_range asks the API for:
\* strftime("%Y-%m-%dT%H:%M:%S.000") keeps the whole seconds of a date, and
\* the clock of the model moves in whole days
QueryParams(start_date, end_date) ==
    [lastModStartDate |-> start_date, lastModEndDate |-> end_date]

\* the window of a fetch_incremental call (history): its dates, what it
\* asked for, whether it returned without raising and when it ended
NoWindow == [queried |-> FALSE, start_date |-> NoneNum, end_date |-> NoneNum,
             params |-> QueryParams(0, 0), ok |-> FALSE, done_at |-> NoneNum]

NoResults == [source |-> NoneStr, unique_items |-> <<>>]

NoCycle == [enabled_sources |-> <<>>, idx |-> 0, total_fetched |-> 0,
            total_unique |-> 0, processed |-> NoResults, timestamp |-> NoneNum,
            caller |-> "none"]

NoHist == [cycles |-> 0, outcome |-> "none", stats0 |-> InitStats,
           sync0 |-> InitSyncState, file0 |-> NoFile, failed |-> {},
           request_failed |-> FALSE, fetched |-> {}, steps |-> <<>>,
           handed |-> {}, waited |-> {}, sink_failed |-> FALSE,
           in_cycle |-> FALSE,
           \* carried from one cycle to the next: the fingerprints fetched so
           \* far, and results, clock and sink files of the cycle before
           fingerprints |-> {}, started |-> 0,
           \* the windows of the latest fetch and of the one before it
           window |-> NoWindow, prev_window |-> NoWindow,
           prev_results |-> [s \in Sources |-> <<>>], prev_started |-> NoneNum,
           prev_processed |-> {}, prev_quality |-> {}]

\* the sources analysed
AnalyzedSources == {"nvd", "otx"}

NoAnalysis ==
    [called |-> FALSE, raised |-> FALSE, source_id |-> "nvd", data |-> <<>>,
     metrics |-> [freshness |-> 0, completeness |-> 0, uniqueness |-> 0,
                  consistency |-> 0, accuracy |-> 0, overall |-> 0],
     issues |-> <<>>, recommendations |-> <<>>,
     trend |-> NoneStr, data_samples |-> 0, stored |-> FALSE,
     save_outcome |-> NoneStr]

NoTrendCall ==
    [called |-> FALSE, source_id |-> "nvd", current_score |-> 0,
     result |-> NoneStr]

\* SourceQualityAnalyzer.__init__ when data/quality_history.json does not
\* exist
InitAnalyzer ==
    /\ history = [s \in AnalyzedSources |-> <<>>]
    /\ history_file = [exists |-> FALSE, complete |-> FALSE,
                       content |-> [s \in AnalyzedSources |-> <<>>]]
    /\ appended = [s \in AnalyzedSources |-> 0]
    /\ analysis = NoAnalysis
    /\ trend_call = NoTrendCall

\* nothing was asked of run yet
NoRun == [stopped |-> FALSE, started_after_stop |-> FALSE,
          stopped_at |-> "none"]

\* PipelineOrchestrator.__init__ with NVDFetcher.__init__ inside it, the
\* analyzer apart
InitComponents(m) ==
    /\ sources = ConfiguredSources
    /\ max_concurrent_sources = m
    /\ fetch_semaphore = m
    /\ stats = InitStats
    /\ pc = "idle"
    /\ cycle = NoCycle
    /\ task = [s \in Sources |-> "none"]
    /\ fetch_results = [s \in Sources |-> <<>>]
    /\ sync_state = InitSyncState
    /\ sync_file = NoFile
    /\ fetch = NoFetch
    /\ now = 0
    /\ processed_files = {}
    /\ quality_files = {}
    /\ hist = NoHist
    /\ running = FALSE
    /\ run_pc = "none"
    /\ run_hist = NoRun

\* Coroutines that call one fetcher
Callers == {"first", "second"}

\* NVDFetcher.__init__: RATE_LIMIT_DELAY is 6, or 1 with an API key, and
\* last_request_time 0; no request was sent. The event loop's clock
\* (seconds) is at 0.
NewLimiter(api_key) ==
    [RATE_LIMIT_DELAY |-> IF api_key THEN 1 ELSE 6,
     last_request_time |-> 0,
     time |-> 0,
     caller |-> [c \in Callers |-> [pc |-> "out", wake |-> 0]],
     requests |-> <<>>]

\* PipelineOrchestrator.__init__ where no history file exists; its fetcher
\* is NVDFetcher()
InitOrchestrator(m) ==
    InitComponents(m) /\ InitAnalyzer /\ limiter = NewLimiter(FALSE)

\* orchestrator.sources[s]["fetcher"] = ...; ["enabled"] = True, done by the
\* embedding program before the first cycle
ConfigureSource(s, fetcher) ==
    /\ pc = "idle"
    /\ hist.cycles = 0
    /\ s # "nvd"
    /\ ~sources[s].enabled
    /\ sources' = [sources EXCEPT ![s] = [enabled |-> TRUE, fetcher |-> fetcher]]
    /\ UNCHANGED <<max_concurrent_sources, fetch_semaphore, stats, pc, cycle,
                   task, fetch_results, sync_state, sync_file, fetch, now,
                   processed_files, quality_files, hist>>
    /\ UNCHANGED dedupVars

\* time passes
Tick ==
    /\ now < MaxClock
    /\ now' = now + 1
    /\ UNCHANGED <<sources, max_concurrent_sources, fetch_semaphore, stats, pc,
                   cycle, task, fetch_results, sync_state, sync_file, fetch,
                   processed_files, quality_files, hist>>
    /\ UNCHANGED dedupVars

\* ---------------------------------------------------------- fetch tasks
EnabledSources == SelectSeq(SourceNames, LAMBDA s : sources[s].enabled)

\* run_fetch_cycle up to asyncio.gather: the fetch tasks are created
StartCycle ==
    /\ pc = "idle"
    /\ hist.cycles < MaxCycles
    /\ hist' = [NoHist EXCEPT !.cycles = hist.cycles + 1, !.stats0 = stats,
                              !.sync0 = sync_state, !.file0 = sync_file,
                              !.in_cycle = TRUE,
                              !.fingerprints = hist.fingerprints,
                              !.window = hist.window,
                              !.prev_window = hist.prev_window,
                              !.started = now,
                              !.prev_results = fetch_results,
                              !.prev_started = IF hist.in_cycle THEN hist.started
                                               ELSE NoneNum,
                              !.prev_processed = processed_files,
                              !.prev_quality = quality_files,
                              !.outcome = IF EnabledSources = <<>>
                                          THEN "returned" ELSE "running"]
    /\ IF EnabledSources = <<>>
       THEN UNCHANGED <<pc, cycle, task, fetch_results>>
       ELSE /\ pc' = "gather"
            /\ cycle' = [NoCycle EXCEPT !.enabled_sources = EnabledSources,
                                        !.caller = "cycle"]
            /\ task' = [s \in Sources |->
                           IF sources[s].enabled THEN "ready" ELSE "none"]
            /\ fetch_results' = [s \in Sources |-> <<>>]
    /\ UNCHANGED <<sources, max_concurrent_sources, fetch_semaphore, stats,
                   sync_state, sync_file, fetch, now, processed_files,
                   quality_files>>
    /\ UNCHANGED dedupVars

\* position of source s in self.sources
Pos(s) == IndexOf(SourceNames, s)

\* C7 sensitivity: the slot stays taken when the body raised
SemaphoreExit_kept_on_raise(value, raised) ==
    IF raised THEN value ELSE value + 1

\* `async with self.fetch_semaphore` left: the slot goes back whether the
\* body returned or raised
SemaphoreExit(value, raised) == value + 1

\* C5 sensitivity: the except branch does not count
ErrorsAfterFetch_uncounted(errors, raised) == errors

\* the except branch of fetch_source_data counts the error
ErrorsAfterFetch(errors, raised) == IF raised THEN errors + 1 ELSE errors

\* C8 sensitivity: the state is advanced whether or not the request raised
SyncStateAfter_before_request(state, end_date, cves, raised) ==
    [last_sync |-> end_date,
     total_processed |-> state.total_processed + Len(cves)]

\* C33 sensitivity: last_sync is the instant the call completed
SyncStateAfter_completion_instant(state, end_date, cves, raised) ==
    IF raised THEN state
    ELSE [last_sync |-> now,
          total_processed |-> state.total_processed + Len(cves)]

\* C25 sensitivity: the count is set to the size of this fetch
SyncStateAfter_count_restarted(state, end_date, cves, raised) ==
    IF raised THEN state
    ELSE [last_sync |-> end_date, total_processed |-> Len(cves)]

\* sync_state after fetch_incremental: advanced only when _fetch_date_range
\* returned
SyncStateAfter(state, end_date, cves, raised) ==
    IF raised THEN state
    ELSE [last_sync |-> end_date,
          total_processed |-> state.total_processed + Len(cves)]

\* fetch_source_data leaves: what it returns is the task's result
EndTask(s, items, raised) ==
    /\ task' = [task EXCEPT ![s] = "done"]
    /\ fetch_results' = [fetch_results EXCEPT ![s] = items]
    /\ stats' = [stats EXCEPT !.errors = ErrorsAfterFetch(stats.errors, raised)]
    /\ hist' = [hist EXCEPT
                  !.failed = IF raised THEN hist.failed \cup {s} ELSE hist.failed,
                  !.fetched = IF items # <<>> THEN hist.fetched \cup {s}
                              ELSE hist.fetched,
                  !.fingerprints = hist.fingerprints
                      \cup {GenerateHash(items[i]) : i \in 1..Len(items)},
                  !.window = IF s = "nvd"
                             THEN [hist.window EXCEPT !.ok = ~raised,
                                                      !.done_at = now]
                             ELSE hist.window]

\* fetch_source_data past `async with self.fetch_semaphore`. Only the nvd
\* branch fetches and suspends (first in _rate_limit or the request); for
\* any other source the body runs through and the slot is back at once.
EnterSemaphore(s) ==
    IF s = "nvd"
    THEN /\ fetch_semaphore' = fetch_semaphore - 1
         /\ task' = [task EXCEPT ![s] = "fetching"]
         /\ fetch' = [start_date |-> IF sync_state.last_sync = NoneNum
                                     THEN now - 30 ELSE sync_state.last_sync,
                      end_date |-> now, all_cves |-> <<>>]
         /\ hist' = [hist EXCEPT
                       !.prev_window = hist.window,
                       !.window = [queried |-> TRUE,
                                   start_date |-> fetch'.start_date,
                                   end_date |-> fetch'.end_date,
                                   params |-> QueryParams(fetch'.start_date,
                                                          fetch'.end_date),
                                   ok |-> FALSE, done_at |-> NoneNum]]
         /\ UNCHANGED <<fetch_results, stats>>
    ELSE /\ EndTask(s, <<>>, FALSE)
         /\ UNCHANGED <<fetch_semaphore, fetch>>

\* a created task runs for the first time; the event loop starts the tasks
\* in the order gather created them
TaskStart(s) ==
    /\ pc = "gather"
    /\ task[s] = "ready"
    /\ \A t \in Sources : Pos(t) < Pos(s) => task[t] # "ready"
    /\ IF ~sources[s].fetcher
       THEN /\ EndTask(s, <<>>, FALSE)
            /\ UNCHANGED <<fetch_semaphore, fetch>>
       ELSE IF fetch_semaphore = 0
       THEN /\ task' = [task EXCEPT ![s] = "waiting"]
            /\ hist' = [hist EXCEPT !.waited = hist.waited \cup {s}]
            /\ UNCHANGED <<fetch_results, stats, fetch_semaphore, fetch>>
       ELSE EnterSemaphore(s)
    /\ UNCHANGED <<sources, max_concurrent_sources, pc, cycle, sync_state,
                   sync_file, now, processed_files, quality_files>>
    /\ UNCHANGED dedupVars

\* a task waiting for the semaphore is woken, the longest waiting first
TaskAdmit(s) ==
    /\ pc = "gather"
    /\ task[s] = "waiting"
    /\ fetch_semaphore > 0
    /\ \A t \in Sources : Pos(t) < Pos(s) => task[t] # "waiting"
    /\ EnterSemaphore(s)
    /\ UNCHANGED <<sources, max_concurrent_sources, pc, cycle, sync_state,
                   sync_file, now, processed_files, quality_files>>
    /\ UNCHANGED dedupVars

\* what a request of _fetch_date_range can raise
RequestErrors == {"TimeoutError", "ClientConnectionError", "ClientResponseError"}

\* _fetch_date_range: a request raises; the exception passes
\* fetch_incremental and is caught in fetch_source_data
FetchRaises(kind) ==
    /\ pc = "gather"
    /\ task["nvd"] = "fetching"
    /\ kind \in RequestErrors
    /\ sync_state' = SyncStateAfter(sync_state, fetch.end_date, fetch.all_cves, TRUE)
    /\ fetch_semaphore' = SemaphoreExit(fetch_semaphore, TRUE)
    /\ fetch' = NoFetch
    /\ task' = [task EXCEPT !["nvd"] = "done"]
    /\ fetch_results' = [fetch_results EXCEPT !["nvd"] = <<>>]
    /\ stats' = [stats EXCEPT !.errors = ErrorsAfterFetch(stats.errors, TRUE)]
    /\ hist' = [hist EXCEPT !.failed = hist.failed \cup {"nvd"},
                            !.request_failed = TRUE,
                            !.window = [@ EXCEPT !.done_at = now]]
    /\ UNCHANGED <<sources, max_concurrent_sources, pc, cycle, sync_file, now,
                   processed_files, quality_files>>
    /\ UNCHANGED dedupVars

\* _fetch_date_range: a page with a record arrives and totalResults says
\* there is more
FetchPage(r) ==
    /\ pc = "gather"
    /\ task["nvd"] = "fetching"
    /\ Len(fetch.all_cves) + 1 < MaxPages
    /\ fetch' = [fetch EXCEPT !.all_cves = Append(fetch.all_cves, r)]
    /\ UNCHANGED <<sources, max_concurrent_sources, fetch_semaphore, stats, pc,
                   cycle, task, fetch_results, sync_state, sync_file, now,
                   processed_files, quality_files, hist>>
    /\ UNCHANGED dedupVars

\* _save_sync_state: open(path, "w") then json.dump; the file is written in
\* place
SaveSyncState(file, state, outcome) ==
    CASE outcome = "ok" ->
           [exists |-> TRUE, complete |-> TRUE, last_sync |-> state.last_sync,
            total_processed |-> state.total_processed]
      [] outcome = "dump_fails" ->
           [exists |-> TRUE, complete |-> FALSE, last_sync |-> NoneNum,
            total_processed |-> 0]
      [] OTHER -> file

WriteOutcomes == {"ok", "open_fails", "dump_fails"}

\* _fetch_date_range returns (the last page, with a record or empty, arrived);
\* fetch_incremental updates and saves the sync state; fetch_source_data
\* turns the CVEs into dicts
FetchReturns(page, outcome) ==
    LET cves == fetch.all_cves \o page IN
    /\ pc = "gather"
    /\ task["nvd"] = "fetching"
    /\ Len(cves) <= MaxPages
    /\ outcome \in WriteOutcomes
    /\ sync_state' = SyncStateAfter(sync_state, fetch.end_date, cves, FALSE)
    /\ sync_file' = SaveSyncState(sync_file, sync_state', outcome)
    /\ fetch_semaphore' = SemaphoreExit(fetch_semaphore, outcome # "ok")
    /\ fetch' = NoFetch
    /\ EndTask("nvd", IF outcome = "ok" THEN cves ELSE <<>>, outcome # "ok")
    /\ UNCHANGED <<sources, max_concurrent_sources, pc, cycle, now,
                   processed_files, quality_files>>
    /\ UNCHANGED dedupVars

\* C6 sensitivity: gather completes as soon as one task has ended
GatherDone_first_ended(t) == \E s \in Sources : t[s] = "done"

\* asyncio.gather(*fetch_tasks, return_exceptions=True) completes when every
\* task has ended
GatherDone(t) == \A s \in Sources : t[s] \in {"none", "done"}

GatherReturns ==
    /\ pc = "gather"
    /\ GatherDone(task)
    /\ pc' = "loop"
    /\ cycle' = [cycle EXCEPT !.idx = 1]
    /\ UNCHANGED <<sources, max_concurrent_sources, fetch_semaphore, stats,
                   task, fetch_results, sync_state, sync_file, fetch, now,
                   processed_files, quality_files, hist>>
    /\ UNCHANGED dedupVars

\* ------------------------------------------------------ processing loop
\* binding a call's keyword arguments to a signature: every keyword has to
\* name a parameter and every parameter without default has to be given
CallBinds(params, required, keywords) ==
    keywords \subseteq params /\ required \subseteq keywords

\* def analyze_source(self, source_id, data, data_type="default")
analyze_source_params == {"source_id", "data", "data_type"}
analyze_source_required == {"source_id", "data"}
\* self.quality_analyzer.analyze_source(source_name=..., items=...)
analyze_source_keywords == {"source_name", "items"}

\* an exception leaves the coroutine (run_fetch_cycle or save_results) and
\* reaches whoever awaited it; no counter is touched on the way
CycleRaises ==
    /\ pc' = "idle"
    /\ cycle' = NoCycle
    /\ task' = [s \in Sources |-> "none"]
    /\ UNCHANGED stats

\* the loop of run_fetch_cycle meets a source without records
LoopSkip ==
    /\ pc = "loop"
    /\ cycle.idx <= Len(cycle.enabled_sources)
    /\ fetch_results[cycle.enabled_sources[cycle.idx]] = <<>>
    /\ cycle' = [cycle EXCEPT !.idx = cycle.idx + 1]
    /\ UNCHANGED <<sources, max_concurrent_sources, fetch_semaphore, stats, pc,
                   task, fetch_results, sync_state, sync_file, fetch, now,
                   processed_files, quality_files, hist>>
    /\ UNCHANGED dedupVars

\* the loop meets a source with records: process_source_data deduplicates
\* them on the shared deduplicator and calls the analyzer
LoopProcess(fp) ==
    LET s == cycle.enabled_sources[cycle.idx]
        result == fetch_results[s]
        r == DeduplicateOn(DedupState, result, SourceStrategy(s), fp)
        analyzed == CallBinds(analyze_source_params, analyze_source_required,
                              analyze_source_keywords)
    IN
    /\ pc = "loop"
    /\ cycle.idx <= Len(cycle.enabled_sources)
    /\ result # <<>>
    /\ DeduplicateCall(result, SourceStrategy(s), fp)
    /\ IF r.raised
       THEN /\ CycleRaises
            /\ hist' = [hist EXCEPT !.outcome = "raised",
                                    !.handed = hist.handed \cup {s}]
       ELSE IF ~analyzed
       THEN /\ CycleRaises
            /\ hist' = [hist EXCEPT !.outcome = "raised",
                                    !.handed = hist.handed \cup {s},
                                    !.steps = <<"deduplicate">>]
       ELSE /\ pc' = "save_snapshot"
            /\ cycle' = [cycle EXCEPT
                           !.total_fetched = cycle.total_fetched + Len(result),
                           !.total_unique = cycle.total_unique + Len(r.unique_items),
                           !.processed = [source |-> s,
                                          unique_items |-> r.unique_items],
                           !.timestamp = now]
            /\ hist' = [hist EXCEPT !.handed = hist.handed \cup {s},
                                    !.steps = <<"deduplicate", "analyze">>]
            /\ UNCHANGED <<stats, task>>
    /\ UNCHANGED <<sources, max_concurrent_sources, fetch_semaphore,
                   fetch_results, sync_state, sync_file, fetch, now,
                   processed_files, quality_files>>

\* the loop is through: the counters are updated and run_fetch_cycle returns
CycleReturns ==
    /\ pc = "loop"
    /\ cycle.idx > Len(cycle.enabled_sources)
    /\ stats' = [stats EXCEPT
                   !.fetch_cycles = stats.fetch_cycles + 1,
                   !.total_items_fetched = stats.total_items_fetched + cycle.total_fetched,
                   !.total_unique_items = stats.total_unique_items + cycle.total_unique,
                   !.total_duplicates = stats.total_duplicates
                                        + (cycle.total_fetched - cycle.total_unique)]
    /\ pc' = "idle"
    /\ cycle' = NoCycle
    /\ task' = [s \in Sources |-> "none"]
    /\ hist' = [hist EXCEPT !.outcome = "returned",
                            !.steps = Append(hist.steps, "counters")]
    /\ UNCHANGED <<sources, max_concurrent_sources, fetch_semaphore,
                   fetch_results, sync_state, sync_file, fetch, now,
                   processed_files, quality_files>>
    /\ UNCHANGED dedupVars

\* ----------------------------------------------------------------- sinks
\* open(path, "w") of a sink file: a file of that path is replaced
FileWrite(files, f) ==
    {g \in files : ~(g.source = f.source /\ g.timestamp = f.timestamp)} \cup {f}

\* what is on disk after open(path, "w") and json.dump went as `outcome`
FilesAfter(files, results, timestamp, outcome) ==
    IF outcome = "open_fails" THEN files
    ELSE FileWrite(files, [source |-> results.source, timestamp |-> timestamp,
                           items |-> results.unique_items,
                           complete |-> (outcome = "ok")])

\* results a caller hands to save_results
DirectResults == {[source |-> "nvd", unique_items |-> <<NC>>]}

\* save_results awaited by the embedding program
SaveResultsCall(results) ==
    /\ pc = "idle"
    /\ hist.cycles < MaxCycles
    /\ pc' = "save_snapshot"
    /\ cycle' = [NoCycle EXCEPT !.processed = results, !.timestamp = now,
                                !.caller = "save"]
    /\ hist' = [NoHist EXCEPT !.cycles = hist.cycles + 1, !.stats0 = stats,
                              !.sync0 = sync_state, !.file0 = sync_file,
                              !.fingerprints = hist.fingerprints,
                              !.window = hist.window,
                              !.prev_window = hist.prev_window,
                              !.outcome = "running"]
    /\ UNCHANGED <<sources, max_concurrent_sources, fetch_semaphore, stats,
                   task, fetch_results, sync_state, sync_file, fetch, now,
                   processed_files, quality_files>>
    /\ UNCHANGED dedupVars

\* save_results: the snapshot file; nothing catches what open or json.dump
\* raise
WriteSnapshot(outcome) ==
    /\ pc = "save_snapshot"
    /\ outcome \in WriteOutcomes
    /\ processed_files' = FilesAfter(processed_files, cycle.processed,
                                     cycle.timestamp, outcome)
    /\ IF outcome = "ok"
       THEN /\ pc' = "save_report"
            /\ hist' = [hist EXCEPT !.steps = Append(hist.steps, "snapshot")]
            /\ UNCHANGED <<cycle, task, stats>>
       ELSE /\ CycleRaises
            /\ hist' = [hist EXCEPT !.outcome = "raised", !.sink_failed = TRUE]
    /\ UNCHANGED <<sources, max_concurrent_sources, fetch_semaphore,
                   fetch_results, sync_state, sync_file, fetch, now,
                   quality_files>>
    /\ UNCHANGED dedupVars

\* save_results: the quality report file; on success save_results returns
\* and the loop of run_fetch_cycle goes on
WriteReport(outcome) ==
    /\ pc = "save_report"
    /\ outcome \in WriteOutcomes
    /\ quality_files' = FilesAfter(quality_files, cycle.processed,
                                   cycle.timestamp, outcome)
    /\ IF outcome # "ok"
       THEN /\ CycleRaises
            /\ hist' = [hist EXCEPT !.outcome = "raised", !.sink_failed = TRUE]
       ELSE IF cycle.caller = "save"
       THEN /\ pc' = "idle"
            /\ cycle' = NoCycle
            /\ hist' = [hist EXCEPT !.outcome = "returned",
                                    !.steps = Append(hist.steps, "report")]
            /\ UNCHANGED <<task, stats>>
       ELSE /\ pc' = "loop"
            /\ cycle' = [cycle EXCEPT !.idx = cycle.idx + 1,
                                      !.processed = NoResults]
            /\ hist' = [hist EXCEPT !.steps = Append(hist.steps, "report")]
            /\ UNCHANGED <<task, stats>>
    /\ UNCHANGED <<sources, max_concurrent_sources, fetch_semaphore,
                   fetch_results, sync_state, sync_file, fetch, now,
                   processed_files>>
    /\ UNCHANGED dedupVars

\* ------------------------------------------------------------------ run
\* stop(): callable at any moment, by a signal handler or any other code
Stop ==
    /\ running' = FALSE
    /\ run_hist' = IF run_hist.stopped THEN run_hist
                   ELSE [run_hist EXCEPT !.stopped = TRUE, !.stopped_at = run_pc]
    /\ UNCHANGED run_pc
    /\ UNCHANGED <<pipeVars, dedupVars, qualityVars, rateVars>>

\* run() starts to execute: self.running = True
RunCall ==
    /\ run_pc = "none"
    /\ pc = "idle"
    /\ running' = TRUE
    /\ run_pc' = "loop"
    /\ UNCHANGED run_hist
    /\ UNCHANGED <<pipeVars, dedupVars, qualityVars, rateVars>>

\* `while self.running` found true: await self.run_fetch_cycle()
RunCycle ==
    /\ run_pc = "loop"
    /\ running
    /\ StartCycle
    /\ run_pc' = "cycle"
    /\ run_hist' = [run_hist EXCEPT
                       !.started_after_stop = run_hist.stopped \/ @]
    /\ UNCHANGED running
    /\ UNCHANGED <<qualityVars, rateVars>>

\* `while self.running` found false: run returns
RunReturns ==
    /\ run_pc = "loop"
    /\ ~running
    /\ run_pc' = "returned"
    /\ UNCHANGED <<running, run_hist>>
    /\ UNCHANGED <<pipeVars, dedupVars, qualityVars, rateVars>>

\* run_fetch_cycle returned: wait for the next cycle if still running
CycleBack ==
    /\ run_pc = "cycle"
    /\ pc = "idle"
    /\ hist.outcome = "returned"
    /\ run_pc' = IF running THEN "sleep" ELSE "loop"
    /\ UNCHANGED <<running, run_hist>>
    /\ UNCHANGED <<pipeVars, dedupVars, qualityVars, rateVars>>

\* run_fetch_cycle raised: `except Exception` counts it and waits a minute
CycleFailed ==
    /\ run_pc = "cycle"
    /\ pc = "idle"
    /\ hist.outcome = "raised"
    /\ stats' = [stats EXCEPT !.errors = stats.errors + 1]
    /\ run_pc' = "retry"
    /\ UNCHANGED <<running, run_hist>>
    /\ UNCHANGED <<qualityVars, rateVars>>
    /\ UNCHANGED <<sources, max_concurrent_sources, fetch_semaphore, pc, cycle,
                   task, fetch_results, sync_state, sync_file, fetch, now,
                   processed_files, quality_files, hist>>
    /\ UNCHANGED dedupVars

\* asyncio.sleep(...) is over: back to the test of the while loop
SleepOver ==
    /\ run_pc \in {"sleep", "retry"}
    /\ run_pc' = "loop"
    /\ UNCHANGED <<running, run_hist>>
    /\ UNCHANGED <<pipeVars, dedupVars, qualityVars, rateVars>>

\* ======================================================= quality analyzer
\* THRESHOLDS["freshness_hours"]
freshness_hours == 48
\* reports kept per source
HistoryCap == 100

\* A score of 1.0. Scores are counted in units of 1/48000, in which the
\* decay per hour and the third decimal are whole numbers.
Unit == 1000 * freshness_hours

Min(a, b) == IF b < a THEN b ELSE a

RECURSIVE SumSeq(_)
SumSeq(xs) == IF xs = <<>> THEN 0 ELSE Head(xs) + SumSeq(Tail(xs))

\* statistics.mean
Mean(xs) == SumSeq(xs) \div Len(xs)

\* bool(value) of a string attribute
Truthy(v) == v # "" /\ v # NoneStr

\* value is None or value == ""
Blank(k, v) == IsNone(k, v) \/ (IsNone(k, NoneStr) /\ v = "")

date_fields ==
    <<"modified", "last_modified", "updated", "published", "created", "timestamp">>

\* datetime.fromisoformat(value.replace("Z", "+00:00")) on the date strings
\* of the model: the strings it parses (any other raises ValueError), the day
\* it yields, counted from 2024-01-01 where the clock `now` starts, and
\* whether the datetime carries an offset
IsoDates ==
    {"2023-11-01", "2024-01-01", "2024-01-02", "2024-01-03", "2024-01-04",
     "2024-01-01T00:00:00Z"}

IsoDay(v) ==
    CASE v = "2023-11-01" -> 0 - 61
      [] v = "2024-01-02" -> 1
      [] v = "2024-01-03" -> 2
      [] v = "2024-01-04" -> 3
      [] OTHER -> 0

IsoAware(v) == v = "2024-01-01T00:00:00Z"

\* the value of the first date field that is set and parses, or None
RECURSIVE FirstDate(_, _)
FirstDate(item, i) ==
    IF i > Len(date_fields) THEN NoneStr
    ELSE LET f == date_fields[i] IN
         IF Has(item, f) /\ Truthy(item[f]) /\ item[f] \in IsoDates
         THEN item[f]
         ELSE FirstDate(item, i + 1)

\* max(0, 1 - hours_old / 48), with the clock at day t
ItemFreshness(item, t) ==
    LET d == FirstDate(item, 1)
        hours_old == 24 * (t - IsoDay(d))
    IN IF d = NoneStr THEN 0
       ELSE Max(0, Unit - (hours_old * Unit) \div freshness_hours)

\* utcnow() is naive: subtracting a datetime with offset raises TypeError
FreshnessRaises(data) ==
    \E i \in 1..Len(data) : IsoAware(FirstDate(data[i], 1))

calculate_freshness(data, t) ==
    Mean([i \in 1..Len(data) |-> ItemFreshness(data[i], t)])

field_requirements ==
    [vulnerability |-> <<"cve_id", "description", "published", "cvss_score">>,
     threat_intelligence |-> <<"indicator", "type", "source", "timestamp">>,
     malware |-> <<"hash", "name", "type", "first_seen">>,
     default |-> <<"id", "source", "timestamp">>]

calculate_completeness(data, data_type) ==
    LET required == IF data_type \in DOMAIN field_requirements
                    THEN field_requirements[data_type]
                    ELSE field_requirements["default"]
        present(item) ==
            Cardinality({i \in 1..Len(required) :
                            /\ Has(item, required[i])
                            /\ ~Blank(required[i], item[required[i]])})
    IN Mean([i \in 1..Len(data) |-> (present(data[i]) * Unit) \div Len(required)])

UniquenessRaises(data, fp) ==
    DeduplicateOn(NewDeduplicator, data, DefaultStrategy, fp).raised

calculate_uniqueness(source_id, data, fp) ==
    LET result == DeduplicateOn(NewDeduplicator, data, DefaultStrategy, fp)
        unique_ratio == (Len(result.unique_items) * Unit) \div Len(data)
    IN IF source_id \in {"nvd", "cisa_kev"} THEN unique_ratio
       ELSE Min(Unit, (unique_ratio * 12) \div 10)

FieldsOf(data) == UNION {DOMAIN data[i] : i \in 1..Len(data)}

RECURSIVE SumOver(_, _)
SumOver(S, score) ==
    IF S = {} THEN 0
    ELSE LET f == CHOOSE x \in S : TRUE IN score[f] + SumOver(S \ {f}, score)

\* type(value).__name__ of the attributes of the model's records
TypeName(f) ==
    IF f \in Range(score_fields) THEN "float"
    ELSE IF f \in Range(list_fields) \cup {"sources"} THEN "list"
    ELSE IF f = "deduplication" THEN "dict"
    ELSE "str"

check_type_consistency(data) ==
    LET typed == {f \in FieldsOf(data) :
                    \E i \in 1..Len(data) :
                        Has(data[i], f) /\ ~IsNone(f, data[i][f])}
        types(f) == {TypeName(f) : i \in {j \in 1..Len(data) :
                        Has(data[j], f) /\ ~IsNone(f, data[j][f])}}
        score == [f \in typed |-> Unit \div Cardinality(types(f))]
    IN IF typed = {} THEN Unit ELSE SumOver(typed, score) \div Cardinality(typed)

calculate_consistency(data) ==
    LET count(f) == Cardinality({i \in 1..Len(data) :
                        Has(data[i], f) /\ ~Blank(f, data[i][f])})
        counted == {f \in FieldsOf(data) : count(f) > 0}
        score == [f \in counted |-> (count(f) * Unit) \div Len(data)]
    IN (SumOver(counted, score) + check_type_consistency(data))
          \div (Cardinality(counted) + 1)

\* any(indicator in str(description).lower() for indicator in
\* ["test", "example", "demo", "sample"]) on the descriptions of the model
HasTestIndicator(description) ==
    description \in {"test entry", "example of a demo"}

\* not item.get(f)
Falsy(item, f) == ~Has(item, f) \/ ~Truthy(item[f])

base_scores ==
    [nvd |-> 98, cisa_kev |-> 99, mitre_attack |-> 95, epss |-> 90,
     otx |-> 85, abuse_ch |-> 88]

estimate_accuracy(source_id, data) ==
    LET base_score == IF source_id \in DOMAIN base_scores
                      THEN base_scores[source_id] ELSE 80
        test_count == Cardinality({i \in 1..Len(data) :
                          HasTestIndicator(Lower(Get(data[i], "description", "")))})
        critical_missing == Cardinality({i \in 1..Len(data) :
                                /\ Falsy(data[i], "id")
                                /\ Falsy(data[i], "cve_id")
                                /\ Falsy(data[i], "indicator")})
        final_score == base_score
                       - (IF 10 * test_count > Len(data) THEN 10 ELSE 0)
                       - (IF 20 * critical_missing > Len(data) THEN 5 ELSE 0)
    IN Max(0, Min(Unit, (final_score * Unit) \div 100))

\* WEIGHTS, in hundredths
WEIGHTS ==
    [freshness |-> 25, completeness |-> 20, uniqueness |-> 20,
     consistency |-> 20, accuracy |-> 15]

\* round(x, 3) of a score given in hundredths of the score unit
Round3(x) ==
    ((x + 50 * freshness_hours) \div (100 * freshness_hours)) * freshness_hours

calculate_overall_score(metrics) ==
    Round3(SumOver(DOMAIN WEIGHTS, [m \in DOMAIN WEIGHTS |-> metrics[m] * WEIGHTS[m]]))

\* THRESHOLDS, the minimal scores
THRESHOLDS ==
    [min_completeness |-> (7 * Unit) \div 10, min_uniqueness |-> Unit \div 10,
     min_consistency |-> (8 * Unit) \div 10, min_accuracy |-> (85 * Unit) \div 100,
     min_overall |-> (7 * Unit) \div 10]

\* An issue: its text without the number, and the number an f-string put
\* into it ({:.1%} in tenths of a percent, {:.2f} in hundredths), if any
Issue(text, value) == [text |-> text, value |-> value]

\* x scaled to `scale` parts of 1.0 and rounded, as a format spec does
Formatted(x, scale) == (2 * x * scale + Unit) \div (2 * Unit)

identify_issues(metrics) ==
    (IF 2 * metrics.freshness < Unit
     THEN <<Issue("Data freshness is below acceptable levels", NoneNum)>>
     ELSE <<>>)
    \o (IF metrics.completeness < THRESHOLDS.min_completeness
        THEN <<Issue("Data completeness is below threshold",
                     Formatted(metrics.completeness, 1000))>>
        ELSE <<>>)
    \o (IF metrics.uniqueness < THRESHOLDS.min_uniqueness
        THEN <<Issue("High duplicate rate detected", NoneNum)>>
        ELSE <<>>)
    \o (IF metrics.consistency < THRESHOLDS.min_consistency
        THEN <<Issue("Inconsistent data structure detected", NoneNum)>>
        ELSE <<>>)
    \o (IF metrics.accuracy < THRESHOLDS.min_accuracy
        THEN <<Issue("Potential accuracy issues detected", NoneNum)>>
        ELSE <<>>)
    \o (IF metrics.overall < THRESHOLDS.min_overall
        THEN <<Issue("Overall quality score below threshold",
                     Formatted(metrics.overall, 100))>>
        ELSE <<>>)

generate_recommendations(source_id, metrics, issues) ==
    (IF 2 * metrics.freshness < Unit
     THEN <<"Increase update frequency for " \o source_id
              \o " or check if source is still active">>
     ELSE <<>>)
    \o (IF metrics.completeness < THRESHOLDS.min_completeness
        THEN <<"Review field mapping and ensure all required fields are being extracted">>
        ELSE <<>>)
    \o (IF metrics.uniqueness < THRESHOLDS.min_uniqueness
        THEN <<"Implement or improve deduplication before processing this source">>
        ELSE <<>>)
    \o (IF metrics.consistency < THRESHOLDS.min_consistency
        THEN <<"Standardize data parsing and add validation for field types">>
        ELSE <<>>)
    \o (IF metrics.accuracy < THRESHOLDS.min_accuracy
        THEN <<"Validate " \o source_id \o " data against authoritative sources">>
        ELSE <<>>)
    \o (IF issues = <<>>
        THEN <<source_id \o " is performing well - maintain current configuration">>
        ELSE <<>>)

\* C21 sensitivity: the empty report says nothing about what is wrong
create_empty_report_unexplained(source_id) ==
    [metrics |-> [freshness |-> 0, completeness |-> 0, uniqueness |-> 0,
                  consistency |-> 0, accuracy |-> 0, overall |-> 0],
     issues |-> <<>>,
     recommendations |-> <<"Check source connectivity and configuration">>,
     trend |-> NoneStr, data_samples |-> 0]

\* _create_empty_report: QualityMetrics(0, 0, 0, 0, 0, 0), no trend
create_empty_report(source_id) ==
    [metrics |-> [freshness |-> 0, completeness |-> 0, uniqueness |-> 0,
                  consistency |-> 0, accuracy |-> 0, overall |-> 0],
     issues |-> <<Issue("No data available from source", NoneNum)>>,
     recommendations |-> <<"Check source connectivity and configuration">>,
     trend |-> NoneStr, data_samples |-> 0]

\* C20 sensitivity: seq[:k], the oldest reports are the ones kept
Last_keeps_first(seq, k) ==
    IF Len(seq) <= k THEN seq ELSE SubSeq(seq, 1, k)

\* seq[-k:]
Last(seq, k) ==
    IF Len(seq) <= k THEN seq ELSE SubSeq(seq, Len(seq) - k + 1, Len(seq))

\* C35 sensitivity: x runs backwards, the newest score at x = 0
analyze_trend_newest_first(reports, current_score) ==
    LET y == [i \in 1..Len(Last(reports, 10)) |-> Last(reports, 10)[i].overall]
                 \o <<current_score>>
        n == Len(y)
        sx == SumSeq([i \in 1..n |-> n - i])
        sxx == SumSeq([i \in 1..n |-> (n - i) * (n - i)])
        sxy == SumSeq([i \in 1..n |-> (n - i) * y[i]])
        num == n * sxy - sx * SumSeq(y)
        den == n * sxx - sx * sx
    IN IF Len(reports) < 2 THEN "insufficient_data"
       ELSE IF 100 * num > Unit * den THEN "improving"
       ELSE IF 100 * num < 0 - Unit * den THEN "degrading"
       ELSE "stable"

\* the sign of the regression slope over the last ten overall scores and the
\* current one, against 0.01
analyze_trend(reports, current_score) ==
    LET y == [i \in 1..Len(Last(reports, 10)) |-> Last(reports, 10)[i].overall]
                 \o <<current_score>>
        n == Len(y)
        sx == SumSeq([i \in 1..n |-> i - 1])
        sxx == SumSeq([i \in 1..n |-> (i - 1) * (i - 1)])
        sxy == SumSeq([i \in 1..n |-> (i - 1) * y[i]])
        num == n * sxy - sx * SumSeq(y)
        den == n * sxx - sx * sx
    IN IF Len(reports) < 2 THEN "insufficient_data"
       ELSE IF 100 * num > Unit * den THEN "improving"
       ELSE IF 100 * num < 0 - Unit * den THEN "degrading"
       ELSE "stable"

\* _save_history: open(path, "w") then json.dump
SaveHistory(file, h, outcome) ==
    CASE outcome = "ok" -> [exists |-> TRUE, complete |-> TRUE, content |-> h]
      [] outcome = "dump_fails" ->
           [exists |-> TRUE, complete |-> FALSE,
            content |-> [s \in AnalyzedSources |-> <<>>]]
      [] OTHER -> file

\* _store_in_history up to the save: append, then keep the last 100
StoreInHistory(h, source_id, report) ==
    [h EXCEPT ![source_id] = Last(Append(@, report), HistoryCap)]

\* the five dimensions and the overall score of analyze_source
QualityMetrics(source_id, data, data_type, fp, t) ==
    LET metrics5 == [freshness |-> calculate_freshness(data, t),
                     completeness |-> calculate_completeness(data, data_type),
                     uniqueness |-> calculate_uniqueness(source_id, data, fp),
                     consistency |-> calculate_consistency(data),
                     accuracy |-> estimate_accuracy(source_id, data)]
    IN [m \in DOMAIN metrics5 \cup {"overall"} |->
           IF m = "overall" THEN calculate_overall_score(metrics5)
           ELSE metrics5[m]]

\* analyze_source(source_id, data, data_type) with the clock at `now`
AnalyzeSource(source_id, data, data_type, fp, outcome) ==
    LET empty == create_empty_report(source_id) IN
    /\ outcome \in WriteOutcomes
    /\ UNCHANGED trend_call
    /\ IF data = <<>>
       THEN \* _create_empty_report: nothing is stored
            /\ analysis' = [called |-> TRUE, raised |-> FALSE,
                            source_id |-> source_id, data |-> data,
                            metrics |-> empty.metrics, issues |-> empty.issues,
                            recommendations |-> empty.recommendations,
                            trend |-> empty.trend,
                            data_samples |-> empty.data_samples,
                            stored |-> FALSE, save_outcome |-> NoneStr]
            /\ UNCHANGED <<history, history_file, appended>>
       ELSE IF FreshnessRaises(data) \/ UniquenessRaises(data, fp)
       THEN /\ analysis' = [NoAnalysis EXCEPT !.called = TRUE, !.raised = TRUE,
                                              !.source_id = source_id,
                                              !.data = data]
            /\ UNCHANGED <<history, history_file, appended>>
       ELSE \E metrics \in {QualityMetrics(source_id, data, data_type, fp, now)} :
            \E issues \in {identify_issues(metrics)} :
            \E trend \in {analyze_trend(history[source_id], metrics.overall)} :
            LET recommendations ==
                    generate_recommendations(source_id, metrics, issues)
                report == [n |-> appended[source_id] + 1, timestamp |-> now,
                           overall |-> metrics.overall, trend |-> trend,
                           data_samples |-> Len(data)]
            IN
            /\ history' = StoreInHistory(history, source_id, report)
            /\ history_file' = SaveHistory(history_file, history', outcome)
            /\ appended' = [appended EXCEPT ![source_id] = @ + 1]
            /\ analysis' = [called |-> TRUE, raised |-> (outcome # "ok"),
                            source_id |-> source_id, data |-> data,
                            metrics |-> metrics, issues |-> issues,
                            recommendations |-> recommendations,
                            trend |-> trend, data_samples |-> Len(data),
                            stored |-> TRUE, save_outcome |-> outcome]

\* ------------------------------------------------------ analyzer inputs
\* Longest record list handed to analyze_source
MaxData == 2
\* Reports stored while the scores are examined
MaxAnalyses == 1
\* Reports stored per source while the history is examined
MaxReports == 102

\* Records dated on the day the clock starts, two days later, two months
\* earlier, with a UTC designator, and not dated in any readable way
QA == [id |-> "a", cve_id |-> "CVE-1", source |-> "nvd",
       description |-> "sql injection in x", timestamp |-> "2024-01-01"]
QF == [id |-> "f", cve_id |-> "CVE-3", source |-> "nvd",
       description |-> "test entry", published |-> "2024-01-03"]
QO == [cve_id |-> "CVE-2", source |-> "otx", timestamp |-> "2023-11-01"]
QZ == [indicator |-> "10.0.0.1", source |-> "otx",
       timestamp |-> "2024-01-01T00:00:00Z"]
QE == [description |-> "", timestamp |-> "yesterday"]
\* A record updated long ago and seen again today, and one whose dates are
\* None
QU == [id |-> "u", indicator |-> "10.0.0.2", source |-> "otx",
       updated |-> "2023-11-01", timestamp |-> "2024-01-01"]
QN == [id |-> "n", cve_id |-> "CVE-5", source |-> "nvd",
       published |-> NoneStr, last_modified |-> NoneStr]

QualityRecords == {QA, QF, QO, QZ, QE, QU, QN}

QualityLists == SeqsUpTo(QualityRecords, MaxData)

DataTypes == {"default", "vulnerability"}

QualityFalsePositiveSets ==
    {S \in SUBSET {GenerateHash(r) : r \in QualityRecords} :
        Cardinality(S) <= MaxFalsePositives}

\* analyze_source called on its own, with any records
AnalyzeAny ==
    \E source_id \in AnalyzedSources, data \in QualityLists,
       data_type \in DataTypes, fp \in QualityFalsePositiveSets,
       outcome \in WriteOutcomes :
        /\ appended["nvd"] + appended["otx"] < MaxAnalyses
        /\ AnalyzeSource(source_id, data, data_type, fp, outcome)
        /\ UNCHANGED <<dedupVars, pipeVars, runVars, rateVars>>

\* analyze_source called again and again with the same records, the history
\* file writable
AnalyzeSame ==
    \E source_id \in AnalyzedSources, data \in {<<>>, <<QA>>} :
        /\ appended[source_id] < MaxReports
        /\ AnalyzeSource(source_id, data, "default", {}, "ok")
        /\ UNCHANGED <<dedupVars, pipeVars, runVars, rateVars>>

\* ---------------------------------------------- a history found on disk
\* Reports per source in the history file the analyzer is constructed on
MaxLoaded == 3

\* overall scores of the reports found: 0.4, 0.5, 0.6, 0.7, 0.8
TrendScores == {(k * Unit) \div 10 : k \in 4..8}

\* reports written by an earlier process, with the given overall scores
LoadedReports(scores) ==
    [i \in 1..Len(scores) |->
        [n |-> i, timestamp |-> 0, overall |-> scores[i], trend |-> NoneStr,
         data_samples |-> 1]]

OverallScores(reports) == [i \in 1..Len(reports) |-> reports[i].overall]

\* Length of the long histories found on disk
LongLoaded == 10

\* a long history: one score, then another score in every later report
LongHistories ==
    {[i \in 1..LongLoaded |-> IF i = 1 THEN a ELSE b] :
        a \in TrendScores, b \in TrendScores}

\* SourceQualityAnalyzer.__init__ when data/quality_history.json exists and
\* loads: self.history is what json.load returns
InitLoadedAnalyzer ==
    /\ \E scores \in SeqsUpTo(TrendScores, MaxLoaded) \cup LongHistories :
          history = [s \in AnalyzedSources |->
                        IF s = "nvd" THEN LoadedReports(scores) ELSE <<>>]
    /\ history_file = [exists |-> TRUE, complete |-> TRUE, content |-> history]
    /\ appended = [s \in AnalyzedSources |-> Len(history[s])]
    /\ analysis = NoAnalysis
    /\ trend_call = NoTrendCall

\* _analyze_trend(source_id, current_score) called on its own
AnalyzeTrend ==
    \E source_id \in AnalyzedSources, current_score \in TrendScores :
        /\ trend_call' = [called |-> TRUE, source_id |-> source_id,
                          current_score |-> current_score,
                          result |-> analyze_trend(history[source_id],
                                                   current_score)]
        /\ UNCHANGED <<history, history_file, appended, analysis>>
        /\ UNCHANGED <<dedupVars, pipeVars, runVars, rateVars>>

\* ------------------------------------------------------- rate limiting
\* Seconds the event loop's clock runs
MaxLoopTime == 13
\* Requests a run sends
MaxRequests == 3

\* session.get is reached right after _rate_limit returned: the request of
\* caller c goes out at the time last_request_time was set to
SendRequest(l, c) ==
    [l EXCEPT !.last_request_time = l.time,
              !.requests = Append(@, [caller |-> c, at |-> l.time]),
              !.caller[c] = [pc |-> "out", wake |-> 0]]

\* requests sent or about to be
Planned(l) ==
    Len(l.requests) + Cardinality({c \in Callers : l.caller[c].pc = "sleeping"})

\* caller c enters _rate_limit: without a wait it runs through to the
\* request, otherwise it suspends in asyncio.sleep
RateLimitCall(c) ==
    LET time_since_last == limiter.time - limiter.last_request_time IN
    /\ limiter.caller[c].pc = "out"
    /\ Planned(limiter) < MaxRequests
    /\ limiter' =
          IF time_since_last < limiter.RATE_LIMIT_DELAY
          THEN [limiter EXCEPT !.caller[c] =
                   [pc |-> "sleeping",
                    wake |-> limiter.time
                               + (limiter.RATE_LIMIT_DELAY - time_since_last)]]
          ELSE SendRequest(limiter, c)
    /\ UNCHANGED <<dedupVars, pipeVars, runVars, qualityVars>>

\* asyncio.sleep is over: the caller sets last_request_time and sends
RateLimitWake(c) ==
    /\ limiter.caller[c].pc = "sleeping"
    /\ limiter.time >= limiter.caller[c].wake
    /\ limiter' = SendRequest(limiter, c)
    /\ UNCHANGED <<dedupVars, pipeVars, runVars, qualityVars>>

\* a second passes on the event loop's clock
LoopTimePasses ==
    /\ limiter.time < MaxLoopTime
    /\ limiter' = [limiter EXCEPT !.time = @ + 1]
    /\ UNCHANGED <<dedupVars, pipeVars, runVars, qualityVars>>

\* ------------------------------------------------------- specifications
Pages == {<<>>} \cup {<<r>> : r \in NvdRecords}

FetchStep ==
    \/ \E kind \in RequestErrors : FetchRaises(kind)
    \/ \E r \in NvdRecords : FetchPage(r)
    \/ \E page \in Pages, outcome \in WriteOutcomes : FetchReturns(page, outcome)

TaskStep == \E s \in Sources : TaskStart(s) \/ TaskAdmit(s)

\* run_fetch_cycle and save_results awaited by the embedding program: run is
\* not involved
PipelineNext ==
    \/ /\ \E s \in Sources, fetcher \in BOOLEAN : ConfigureSource(s, fetcher)
       /\ UNCHANGED <<runVars, qualityVars, rateVars>>
    \/ Tick /\ UNCHANGED <<runVars, qualityVars, rateVars>>
    \/ StartCycle /\ UNCHANGED <<runVars, qualityVars, rateVars>>
    \/ (\E s \in Sources : TaskStart(s)) /\ UNCHANGED <<runVars, qualityVars, rateVars>>
    \/ (\E s \in Sources : TaskAdmit(s)) /\ UNCHANGED <<runVars, qualityVars, rateVars>>
    \/ (\E kind \in RequestErrors : FetchRaises(kind)) /\ UNCHANGED <<runVars, qualityVars, rateVars>>
    \/ (\E r \in NvdRecords : FetchPage(r)) /\ UNCHANGED <<runVars, qualityVars, rateVars>>
    \/ /\ \E page \in Pages, outcome \in WriteOutcomes : FetchReturns(page, outcome)
       /\ UNCHANGED <<runVars, qualityVars, rateVars>>
    \/ GatherReturns /\ UNCHANGED <<runVars, qualityVars, rateVars>>
    \/ LoopSkip /\ UNCHANGED <<runVars, qualityVars, rateVars>>
    \/ (\E fp \in NvdFalsePositiveSets : LoopProcess(fp)) /\ UNCHANGED <<runVars, qualityVars, rateVars>>
    \/ CycleReturns /\ UNCHANGED <<runVars, qualityVars, rateVars>>
    \/ (\E results \in DirectResults : SaveResultsCall(results)) /\ UNCHANGED <<runVars, qualityVars, rateVars>>
    \/ (\E outcome \in WriteOutcomes : WriteSnapshot(outcome)) /\ UNCHANGED <<runVars, qualityVars, rateVars>>
    \/ (\E outcome \in WriteOutcomes : WriteReport(outcome)) /\ UNCHANGED <<runVars, qualityVars, rateVars>>

\* A deduplicator used on its own
Init == InitDedup /\ InitOrchestrator(MaxConcurrent)

Next == DedupNext /\ UNCHANGED <<pipeVars, runVars, qualityVars, rateVars>>

Spec == Init /\ [][Next]_vars

\* run() on an orchestrator as constructed, stop() at any moment
RunNext ==
    \/ Stop
    \/ RunCall
    \/ RunCycle
    \/ RunReturns
    \/ CycleBack
    \/ CycleFailed
    \/ SleepOver
    \/ Tick /\ UNCHANGED <<runVars, qualityVars, rateVars>>
    \* one source is enabled: its task never waits for a slot
    \/ (\E s \in Sources : TaskStart(s)) /\ UNCHANGED <<runVars, qualityVars, rateVars>>
    \/ (\E kind \in RequestErrors : FetchRaises(kind)) /\ UNCHANGED <<runVars, qualityVars, rateVars>>
    \/ (\E r \in NvdRecords : FetchPage(r)) /\ UNCHANGED <<runVars, qualityVars, rateVars>>
    \/ /\ \E page \in Pages, outcome \in WriteOutcomes : FetchReturns(page, outcome)
       /\ UNCHANGED <<runVars, qualityVars, rateVars>>
    \/ GatherReturns /\ UNCHANGED <<runVars, qualityVars, rateVars>>
    \/ LoopSkip /\ UNCHANGED <<runVars, qualityVars, rateVars>>
    \/ (\E fp \in NvdFalsePositiveSets : LoopProcess(fp)) /\ UNCHANGED <<runVars, qualityVars, rateVars>>
    \/ CycleReturns /\ UNCHANGED <<runVars, qualityVars, rateVars>>

Run == Init /\ [][RunNext]_vars

\* What run and the fetch task it awaits do themselves, processing apart;
\* stop and the clock are the environment's
RunStep ==
    \/ RunCycle
    \/ RunReturns
    \/ CycleBack
    \/ CycleFailed
    \/ SleepOver
    \/ (TaskStep \/ FetchStep \/ GatherReturns \/ LoopSkip \/ CycleReturns)
       /\ UNCHANGED <<runVars, qualityVars, rateVars>>

\* The loop of run_fetch_cycle stands before a source with records: exactly
\* the states in which LoopProcess can be taken, and LoopProcess leaves them
LoopProcessReady ==
    /\ pc = "loop"
    /\ cycle.idx <= Len(cycle.enabled_sources)
    /\ fetch_results[cycle.enabled_sources[cycle.idx]] # <<>>

\* The event loop runs whatever is ready (run is the only coroutine, with one
\* fetch task inside a cycle), a request ends and a sleep is over after its
\* time; nothing obliges anyone to call stop. The last conjunct is weak
\* fairness of LoopProcess, written with its enabling condition.
FairRun ==
    /\ Run
    /\ WF_vars(RunStep)
    /\ []<>(~LoopProcessReady)

\* The analyzer on its own: the scores of one analysis
QualityNext ==
    \/ AnalyzeAny
    \/ Tick /\ UNCHANGED <<runVars, qualityVars, rateVars>>

Quality == Init /\ [][QualityNext]_vars

\* The analyzer on its own: the history over many analyses
History == Init /\ [][AnalyzeSame]_vars

\* The trend of a score against a history that was loaded
TrendInit ==
    /\ InitDedup /\ InitComponents(MaxConcurrent) /\ InitLoadedAnalyzer
    /\ limiter = NewLimiter(FALSE)

Trend == TrendInit /\ [][AnalyzeTrend]_vars

\* One fetcher, constructed with or without an API key, and the coroutines
\* that fetch through it
RateInit ==
    /\ InitDedup /\ InitComponents(MaxConcurrent) /\ InitAnalyzer
    /\ \E api_key \in BOOLEAN : limiter = NewLimiter(api_key)

RateNext ==
    \/ \E c \in Callers : RateLimitCall(c)
    \/ \E c \in Callers : RateLimitWake(c)
    \/ LoopTimePasses

RateLimit == RateInit /\ [][RateNext]_vars

\* A deduplicator that is reset before every call
FreshDedup == Init /\ [][FreshNext /\ UNCHANGED <<pipeVars, runVars, qualityVars, rateVars>>]_vars

\* The orchestrator with its fetcher, deduplicator and sinks
PipelineInit ==
    /\ InitDedup
    /\ \E m \in 1..MaxConcurrent : InitOrchestrator(m)

Pipeline == PipelineInit /\ [][PipelineNext]_vars

\* The event loop runs every task that can run, and a request ends (it
\* returns or its timeout raises)
FairPipeline ==
    /\ Pipeline
    /\ WF_vars(TaskStep /\ UNCHANGED <<runVars, qualityVars, rateVars>>)
    /\ WF_vars(FetchStep /\ UNCHANGED <<runVars, qualityVars, rateVars>>)
    /\ WF_vars(GatherReturns /\ UNCHANGED <<runVars, qualityVars, rateVars>>)

\* ================================================================= claims

\* C2: the unique items and the duplicates of a deduplicate call add up to
\* its input: len(unique_items) + len(duplicates) = len(items), whatever
\* the strategy, the state earlier calls left and the approximate index's
\* answers.
C2_CountsAddUp ==
    (last.called /\ ~last.raised) =>
        Len(last.unique_items) + Len(last.duplicates) = Len(last.items)

\* C3: between two resets no fingerprint occurs twice among the records
\* returned in unique_items, within one call or across calls.
C3_UniqueFingerprints ==
    last.called =>
        /\ \A i, j \in 1..Len(last.unique_items) :
              GenerateHash(last.unique_items[i]) = GenerateHash(last.unique_items[j])
                  => i = j
        /\ UniqueFingerprints(last) \cap seen_before = {}

\* The input position C4 expects to be retained for fingerprint h: the first
\* among the records of maximal authority with that fingerprint
ExpectedOrigin(items, h) ==
    LET same == {i \in 1..Len(items) : GenerateHash(items[i]) = h}
        top == {i \in same :
                   \A j \in same : get_authority(items[i]) >= get_authority(items[j])}
    IN CHOOSE i \in top : \A j \in top : i <= j

\* The retained record stems from the input record: it keeps every
\* attribute of it outside the merged list and score attributes
StemsFrom(kept, item) ==
    \A f \in (DOMAIN item) \ (Range(list_fields) \cup Range(score_fields)
                              \cup {"sources", "deduplication"}) :
        f \in DOMAIN kept /\ kept[f] = item[f]

HasSinkFiles(s) ==
    /\ \E f \in processed_files : f.source = s /\ f.complete
    /\ \E f \in quality_files : f.source = s /\ f.complete

\* A cycle has ended, by returning or by raising
CycleEnded == hist.in_cycle /\ pc = "idle" /\ hist.outcome # "running"

\* C1: for every enabled source whose fetch returned records, a cycle goes
\* deduplicate, analyze, snapshot file, report file, counters; when it has
\* ended it has returned, the source has both files, fetch_cycles is one
\* more than before and errors is what it was.
C1_CycleProcessesAndSaves ==
    (CycleEnded /\ hist.fetched # {}) =>
        /\ hist.outcome = "returned"
        /\ hist.steps = <<"deduplicate", "analyze", "snapshot", "report", "counters">>
        /\ \A s \in hist.fetched : HasSinkFiles(s)
        /\ stats.fetch_cycles = hist.stats0.fetch_cycles + 1
        /\ stats.errors = hist.stats0.errors

\* C5: a fetch that raises during a cycle does not make the cycle raise, is
\* counted once in errors, and the failed source hands no record to the
\* deduplicator, the analyzer or the sinks.
C5_FetchFailureContained ==
    hist.in_cycle =>
        /\ stats.errors = hist.stats0.errors + Cardinality(hist.failed)
        /\ \A s \in hist.failed :
              /\ fetch_results[s] = <<>>
              /\ s \notin hist.handed
              /\ task[s] \in {"done", "none"}
        /\ (hist.outcome = "raised" => hist.handed # {})
        /\ (CycleEnded /\ hist.failed # {} /\ hist.handed = {}
                => /\ hist.outcome = "returned"
                   /\ stats.fetch_cycles = hist.stats0.fetch_cycles + 1)

\* C5 witness: the nvd fetch raised and the cycle returned with one more
\* error counted.
C5_Witness ==
    /\ CycleEnded
    /\ "nvd" \in hist.failed
    /\ hist.outcome = "returned"
    /\ stats.errors = hist.stats0.errors + 1

InProgress == {s \in Sources : task[s] = "fetching"}

\* C7: never more than max_concurrent_sources fetches are in progress, every
\* fetch that ended has given its slot back, and a fetch task that waits
\* for a slot is eventually admitted and ends.
C7_BoundedFetchesAndAdmission ==
    /\ [](/\ Cardinality(InProgress) <= max_concurrent_sources
          /\ fetch_semaphore = max_concurrent_sources - Cardinality(InProgress))
    /\ \A s \in Sources : (task[s] = "waiting") ~> (task[s] = "done")

\* C7 witness: cisa_kev waited for the only slot, nvd's fetch raised, and
\* cisa_kev was admitted and ended.
C7_Witness ==
    /\ max_concurrent_sources = 1
    /\ "cisa_kev" \in hist.waited
    /\ "nvd" \in hist.failed
    /\ task["cisa_kev"] = "done"
    /\ fetch_semaphore = 1

\* C8: when a request of the fetch raised (timeout, connection error, HTTP
\* error status), last_sync and total_processed are what they were before
\* the fetch, in memory and in the sync state file.
C8_FailedFetchKeepsSyncState ==
    (hist.in_cycle /\ hist.request_failed) =>
        /\ sync_state = hist.sync0
        /\ sync_file = hist.file0

\* C8 witness: a fetch raised after an earlier one had succeeded and saved
\* its state, at a later time.
C8_Witness ==
    /\ hist.in_cycle /\ hist.request_failed
    /\ hist.sync0.last_sync # NoneNum
    /\ hist.sync0.last_sync < now
    /\ sync_file.complete

\* C9: within a cycle last_sync differs from its value at the cycle's start
\* only once the cycle has written the snapshot and the report file.
C9_WatermarkAfterSinks ==
    (hist.in_cycle /\ sync_state.last_sync # hist.sync0.last_sync) =>
        /\ IndexOf(hist.steps, "snapshot") > 0
        /\ IndexOf(hist.steps, "report") > 0

\* C10: when writing the snapshot or the report file failed, the failure is
\* counted in errors and the coroutine did not raise.
C10_SinkFailureCounted ==
    hist.sink_failed =>
        /\ hist.outcome # "raised"
        /\ stats.errors = hist.stats0.errors + 1


\* The first input position holding the fingerprint of position o
FirstWithFingerprint(items, o) ==
    CHOOSE i \in 1..Len(items) :
        /\ GenerateHash(items[i]) = GenerateHash(items[o])
        /\ \A j \in 1..(i - 1) : GenerateHash(items[j]) # GenerateHash(items[o])

\* C13: with keep_highest_authority = false the records are scanned in
\* input order: the record retained for a fingerprint stems from the first
\* input record with it, whatever the authority of later ones.
C13_InputOrderWithoutAuthority ==
    (last.called /\ last.fresh /\ ~last.raised
        /\ ~last.strategy.keep_highest_authority) =>
        \A k \in 1..Len(last.unique_items) :
            last.unique_origin[k]
                = FirstWithFingerprint(last.items, last.unique_origin[k])

\* C14: after a merge with merge_fields = true and aggregate_scores = false
\* every score attribute the retained input record holds has kept that
\* record's value.
C14_ScoresKeptWithoutAggregation ==
    (last.called /\ ~last.raised /\ last.strategy.merge_fields
        /\ ~last.strategy.aggregate_scores) =>
        \A k \in 1..Len(last.unique_items) :
            LET kept == last.items[last.unique_origin[k]] IN
            \A i \in 1..Len(score_fields) :
                (Has(kept, score_fields[i]) /\ kept[score_fields[i]] # NoneNum)
                    => last.unique_items[k][score_fields[i]] = kept[score_fields[i]]

\* C15: after one call on a fresh deduplicator with merge_fields and
\* preserve_all_sources, the retained record of a fingerprint that had
\* duplicates has a sources list with the source tag of every input record
\* of that fingerprint.
C15_AllSourcesPreserved ==
    (last.called /\ last.fresh /\ ~last.raised /\ last.strategy.merge_fields
        /\ last.strategy.preserve_all_sources) =>
        \A k \in 1..Len(last.unique_items) :
            LET o == last.unique_origin[k]
                same == {i \in 1..Len(last.items) :
                            GenerateHash(last.items[i]) = GenerateHash(last.items[o])}
            IN Cardinality(same) > 1 =>
                  /\ Has(last.unique_items[k], "sources")
                  /\ \A i \in same :
                        Get(last.items[i], "source", "unknown")
                            \in Range(last.unique_items[k]["sources"])

\* C16: deduplicate returns a result, it never raises, whatever the records.
C16_NeverRaises == last.called => ~last.raised

\* C17: deduplicating the unique_items of a call again, the deduplicator
\* reset before each pass, returns the same unique_items and no duplicates.
C17_SecondPassChangesNothing ==
    last.again =>
        /\ ~last.raised
        /\ last.unique_items = last.first_unique
        /\ last.duplicates = <<>>


\* C11: once stop was requested, at whatever moment, run starts no further
\* cycle, a cycle in progress comes to its end and run eventually returns.
C11_StopEndsRun ==
    /\ [](~run_hist.started_after_stop)
    /\ (run_hist.stopped /\ run_pc = "cycle") ~> (run_pc # "cycle")
    /\ (run_hist.stopped /\ run_pc # "none") ~> (run_pc = "returned")

\* C12: after each cycle that returned, total_unique_items is the number of
\* distinct fingerprints the fetches have returned so far.
C12_UniqueTotalIsDistinctFetched ==
    (CycleEnded /\ hist.outcome = "returned") =>
        stats.total_unique_items = Cardinality(hist.fingerprints)

\* The second of two cycles whose fetches returned the same records, with
\* the clock where it was when the first started
SecondIdenticalCycle ==
    /\ CycleEnded
    /\ hist.prev_started = now
    /\ hist.fetched # {}
    /\ hist.prev_results = fetch_results

\* C18: the second of two cycles with identical fetch results and no time
\* advance leaves, for every source with records, a snapshot and a report
\* whose contents are those the first cycle left.
C18_SecondCycleSameFiles ==
    SecondIdenticalCycle =>
        \A s \in hist.fetched :
            /\ \E f \in processed_files, g \in hist.prev_processed :
                  /\ f.source = s /\ g.source = s
                  /\ f.complete /\ g.complete
                  /\ f.items = g.items
            /\ \E f \in quality_files, g \in hist.prev_quality :
                  /\ f.source = s /\ g.source = s
                  /\ f.complete /\ g.complete
                  /\ f.items = g.items

\* The five dimensions and the overall score
Dimensions ==
    {"freshness", "completeness", "uniqueness", "consistency", "accuracy",
     "overall"}

\* C19: every dimension and the overall score of an analysis of a non-empty
\* record list lie in [0, 1], whatever the timestamps of the records.
C19_ScoresInUnitInterval ==
    (analysis.called /\ analysis.stored) =>
        \A m \in Dimensions :
            analysis.metrics[m] >= 0 /\ analysis.metrics[m] <= Unit

\* C20: a history never holds more than 100 reports; it holds the latest
\* ones in the order they were appended, the most recent last; an append
\* leaves the histories of the other sources as they were.
C20_HistoryKeepsLatestHundred ==
    /\ [](\A s \in AnalyzedSources :
            /\ Len(history[s]) = Min(appended[s], HistoryCap)
            /\ \A i \in 1..Len(history[s]) :
                  history[s][i].n = appended[s] - Len(history[s]) + i)
    /\ [][\A s \in AnalyzedSources :
            s # analysis'.source_id => history'[s] = history[s]]_vars

\* One source has had more than 100 reports stored, the other some
C20_Witness ==
    /\ appended["nvd"] > HistoryCap
    /\ Len(history["nvd"]) = HistoryCap
    /\ history["nvd"][1].n = appended["nvd"] - HistoryCap + 1
    /\ history["otx"] # <<>>

\* C21: analyze_source with an empty record list returns a report whose six
\* metrics are all 0, whose only issue is "No data available from source"
\* and whose only recommendation is "Check source connectivity and
\* configuration", and the step leaves the history in memory and the history
\* file as they were.
C21_EmptyInputReport ==
    /\ [] ((analysis.called /\ analysis.data = <<>>) =>
             /\ ~analysis.raised
             /\ \A m \in DOMAIN analysis.metrics : analysis.metrics[m] = 0
             /\ Cardinality(DOMAIN analysis.metrics) = 6
             /\ analysis.issues = <<Issue("No data available from source", NoneNum)>>
             /\ analysis.recommendations
                    = <<"Check source connectivity and configuration">>
             /\ analysis.data_samples = 0)
    /\ [][(analysis'.called /\ analysis'.data = <<>>) =>
             (history' = history /\ history_file' = history_file)]_vars

\* an empty list was analysed after reports of the source had been stored and
\* written
C21_Witness ==
    /\ analysis.called /\ analysis.data = <<>>
    /\ history[analysis.source_id] # <<>>
    /\ history_file.exists /\ history_file.content = history

\* C22: against a history whose overall scores are 0.5, 0.6, 0.7 the trend
\* of a new overall score 0.8 is improving, of 0.4 degrading and of 0.7
\* stable.
C22_TrendOfExample ==
    (/\ trend_call.called
     /\ OverallScores(history[trend_call.source_id])
          = <<(5 * Unit) \div 10, (6 * Unit) \div 10, (7 * Unit) \div 10>>) =>
        /\ trend_call.current_score = (8 * Unit) \div 10
              => trend_call.result = "improving"
        /\ trend_call.current_score = (4 * Unit) \div 10
              => trend_call.result = "degrading"
        /\ trend_call.current_score = (7 * Unit) \div 10
              => trend_call.result = "stable"

\* C23: when writing the history file fails, analyze_source still returns
\* its report (nothing is raised to the caller) and the report stays in the
\* history in memory; a write that succeeds puts the whole history in
\* memory into the file.
C23_SaveFailureContained ==
    /\ (analysis.called /\ analysis.save_outcome \in WriteOutcomes \ {"ok"}) =>
          /\ ~analysis.raised
          /\ history[analysis.source_id] # <<>>
          /\ Last(history[analysis.source_id], 1)[1].n
                = appended[analysis.source_id]
    /\ (analysis.called /\ analysis.save_outcome = "ok") =>
          (history_file.complete /\ history_file.content = history)

\* C24: every durable file (quality history, sync state, snapshot) is
\* replaced atomically: whenever the file exists at its path, also after a
\* write that was cut short, it holds a complete content.
C24_AtomicReplace ==
    /\ history_file.exists => history_file.complete
    /\ sync_file.exists => sync_file.complete
    /\ \A f \in processed_files : f.complete

\* the fetch_incremental call of the cycle in progress has returned without
\* raising
FetchReturned ==
    /\ pc \in {"gather", "loop"}
    /\ task["nvd"] = "done"
    /\ "nvd" \notin hist.failed

\* C25 as stated: after every fetch_incremental call that returns without
\* raising, total_processed is strictly greater than before the call, and
\* it never decreases.
C25_StrictlyMonotonic ==
    FetchReturned => sync_state.total_processed > hist.sync0.total_processed

\* C25 as amended: total_processed never decreases, and after every
\* fetch_incremental call that returns without raising it is its value
\* before the call plus the number of records the call returned, so it is
\* strictly greater exactly when the call returned at least one record.
C25_GrowsByRecordsReturned ==
    /\ [] (FetchReturned =>
             sync_state.total_processed
               = hist.sync0.total_processed + Len(fetch_results["nvd"]))
    /\ [][sync_state'.total_processed >= sync_state.total_processed]_vars

\* a later cycle's fetch returned records on top of a count that was not 0
C25_Witness ==
    /\ FetchReturned
    /\ hist.sync0.total_processed > 0
    /\ fetch_results["nvd"] # <<>>
    /\ sync_state.total_processed > hist.sync0.total_processed

\* C26: after reset() the exact hashes, the item cache, the merge history
\* and the approximate index are empty, and whatever calls follow, each
\* returns what the same call returns on a deduplicator constructed at the
\* moment of the reset and given the same calls (and leaves the same
\* state).
C26_ResetLikeNew ==
    shadow.active =>
        /\ calls = 0 =>
              /\ exact_hashes = {} /\ bloom_filter = {} /\ bloom_fp = {}
              /\ item_cache = EmptyRec /\ merge_history = <<>>
        /\ DedupState = shadow.d
        /\ last.called =>
              Returned(last) = shadow.result

\* the second call after a reset met what the first one had left
C26_Witness ==
    /\ shadow.active /\ calls = 2
    /\ last.called /\ ~last.fresh /\ ~last.raised
    /\ last.hashes_before # {}
    /\ last.duplicates # <<>>

\* C27: when deduplicate with merge_fields meets a record whose fingerprint
\* is already in the exact index, put there by this call or by an earlier
\* one, the record is merged into the retained one: the record stored for
\* the fingerprint afterwards has every attribute the incoming record has a
\* value for. (With merge_fields the duplicates of a call are exactly its
\* exact hits.)
C27_ExactHitMerged ==
    (last.called /\ ~last.raised /\ last.strategy.merge_fields) =>
        \A i \in 1..Len(last.duplicates) :
            LET item == last.duplicates[i]
                stored == item_cache[GenerateHash(item)]
            IN \A k \in DOMAIN item :
                   ~IsNone(k, item[k]) => k \in DOMAIN stored

\* attributes the merge treats by a rule of their own or writes itself
MergeManaged ==
    Range(list_fields) \cup Range(score_fields) \cup {"sources", "deduplication"}

\* C28: when a duplicate L is merged into the retained record W with
\* merge_fields, then for every attribute that is neither a list nor a score
\* attribute the merged record holds W's value if W has a non-null one, and
\* otherwise (absent from W, or null in W) L's non-null value. Stated for
\* the calls on a fresh deduplicator that merge a second record into a
\* first.
C28_ComplementaryAttributes ==
    (/\ last.called /\ last.fresh /\ ~last.raised /\ ~last.again
     /\ last.strategy.merge_fields
     /\ Len(last.items) = 2 /\ Len(last.unique_items) = 1
     /\ Len(last.merged_items) = 1) =>
        LET W == last.items[last.unique_origin[1]]
            L == last.items[3 - last.unique_origin[1]]
            merged == last.unique_items[1]
        IN \A k \in (DOMAIN W \cup DOMAIN L) \ MergeManaged :
              IF Has(W, k) /\ ~IsNone(k, W[k])
              THEN Has(merged, k) /\ merged[k] = W[k]
              ELSE (Has(L, k) /\ ~IsNone(k, L[k])) =>
                       (Has(merged, k) /\ merged[k] = L[k])

\* C29: the fingerprint is determined by the identifier of highest priority
\* that is present (cve_id, indicator, pulse_id, sha256/md5): two records
\* handed to deduplicate that have the same cve_id have the same
\* fingerprint, whatever their source, their other identifiers and their
\* other attributes.
C29_FingerprintByFirstIdentifier ==
    (last.called /\ ~last.raised) =>
        \A i, j \in 1..Len(last.items) :
            (/\ Has(last.items[i], "cve_id") /\ Has(last.items[j], "cve_id")
             /\ last.items[i]["cve_id"] = last.items[j]["cve_id"]) =>
                GenerateHash(last.items[i]) = GenerateHash(last.items[j])

\* C30: in a cycle a source's records are handed to deduplicate and to the
\* analyzer only after the fetch that produced them has completed (every
\* fetch task of the cycle has ended and the slots are back), and the
\* sources are processed one at a time: a source is handed over only when
\* the loop is between two sources, and it is the one the loop stands at.
C30_ProcessingSerialAfterFetch ==
    /\ [] ((pc \in {"loop", "save_snapshot", "save_report"}
              /\ cycle.caller = "cycle") =>
             /\ \A s \in Sources : task[s] \in {"none", "done"}
             /\ fetch_semaphore = max_concurrent_sources
             /\ fetch = NoFetch)
    /\ [][(hist'.handed # hist.handed /\ hist'.handed # {}) =>
             /\ pc = "loop"
             /\ \A s \in Sources : task[s] \in {"none", "done"}
             /\ \E s \in Sources :
                   /\ hist'.handed = hist.handed \cup {s}
                   /\ s = cycle.enabled_sources[cycle.idx]
                   /\ last'.items = fetch_results[s]
                   /\ calls' = calls + 1]_vars

\* records were handed over in a cycle in which another source's fetch task
\* had to wait for a slot
C30_Witness ==
    /\ hist.handed # {}
    /\ hist.waited # {}
    /\ last.called /\ last.items # <<>>

C32_IndependentOfApproximateIndex ==
    [][(last'.called /\ calls' = calls + 1) =>
          \A fp \in FalsePositiveSets :
              LET other == DeduplicateOn(DedupState, last'.items,
                                         last'.strategy, fp)
              IN /\ Returned(other) = Returned(last')
                 /\ other.exact_hashes = exact_hashes'
                 /\ other.item_cache = item_cache']_vars

\* C33: after a fetch_incremental call that returned without raising,
\* last_sync is the end_date that call read from the clock before its
\* first request (not the instant it completed); the fetch_incremental
\* call that follows a call that returned without raising starts its
\* window at that end_date and asks the API for a window whose
\* lastModStartDate is the lastModEndDate asked before, so that nothing
\* between the two windows is left out.
C33_LastSyncIsWindowEnd ==
    /\ (hist.window.queried /\ hist.window.ok) =>
          sync_state.last_sync = hist.window.end_date
    /\ (hist.window.queried /\ hist.prev_window.queried
           /\ hist.prev_window.ok) =>
          /\ hist.window.start_date = hist.prev_window.end_date
          /\ hist.window.params.lastModStartDate
                = hist.prev_window.params.lastModEndDate

\* two fetches in a row returned; the first completed after the end of its
\* window, and the second started at that end, before that completion
C33_Witness ==
    /\ hist.prev_window.queried /\ hist.prev_window.ok
    /\ hist.prev_window.done_at > hist.prev_window.end_date
    /\ hist.window.queried /\ hist.window.ok
    /\ hist.window.start_date = hist.prev_window.end_date
    /\ hist.window.start_date < hist.prev_window.done_at
    /\ sync_state.last_sync = hist.window.end_date

\* the classification of the least-squares slope over the points y against
\* 0.01
SlopeClass(y) ==
    LET n == Len(y)
        sx == SumSeq([i \in 1..n |-> i - 1])
        sxx == SumSeq([i \in 1..n |-> (i - 1) * (i - 1)])
        sxy == SumSeq([i \in 1..n |-> (i - 1) * y[i]])
        num == n * sxy - sx * SumSeq(y)
        den == n * sxx - sx * sx
    IN IF 100 * num > Unit * den THEN "improving"
       ELSE IF 100 * num < 0 - Unit * den THEN "degrading"
       ELSE "stable"

\* C34: the trend is insufficient_data when the prior overall scores and
\* the current one are fewer than 3 points; otherwise it is the class of
\* the least-squares slope over at most the last 10 scores, the current
\* one included (improving above 0.01, degrading below -0.01, else stable).
C34_TrendOverLastTen ==
    trend_call.called =>
        LET points == OverallScores(history[trend_call.source_id])
                          \o <<trend_call.current_score>>
        IN trend_call.result
             = IF Len(points) < 3 THEN "insufficient_data"
               ELSE SlopeClass(Last(points, 10))

\* degrading < stable < improving
TrendRank(t) ==
    CASE t = "degrading" -> 0 [] t = "stable" -> 1 [] t = "improving" -> 2
      [] OTHER -> -1

\* C35: with the same prior history of at least 2 scores, a call with a
\* current score at least as high as that of the call before never gets a
\* lower class: not stable or degrading after improving, not degrading
\* after stable.
C35_MonotoneInCurrentScore ==
    [][(/\ trend_call.called /\ trend_call'.called
        /\ trend_call'.source_id = trend_call.source_id
        /\ history' = history
        /\ Len(history[trend_call.source_id]) >= 2
        /\ trend_call'.current_score >= trend_call.current_score) =>
          TrendRank(trend_call'.result) >= TrendRank(trend_call.result)]_vars

\* the class of a history went up from degrading to improving with the
\* current score
C35_Witness ==
    /\ trend_call.called
    /\ Len(history[trend_call.source_id]) >= 2
    /\ trend_call.result = "improving"
    /\ \E lower \in TrendScores :
          /\ lower < trend_call.current_score
          /\ analyze_trend(history[trend_call.source_id], lower) = "degrading"

\* the candidate timestamps of a record that are set and parse
ParseableDates(item) ==
    {item[date_fields[i]] : i \in {j \in 1..Len(date_fields) :
        /\ Has(item, date_fields[j])
        /\ Truthy(item[date_fields[j]])
        /\ item[date_fields[j]] \in IsoDates}}

\* max(0, 1 - hours_old / 48) from the newest of them, 0 without any
FreshnessOfNewest(item, t) ==
    LET ds == ParseableDates(item)
        newest == CHOOSE d \in ds : \A e \in ds : IsoDay(e) <= IsoDay(d)
    IN IF ds = {} THEN 0
       ELSE Max(0, Unit - (24 * (t - IsoDay(newest)) * Unit) \div freshness_hours)

\* C36: the freshness of an analysis that computed its metrics is the mean
\* of the scores of its records, each taken from the newest of the record's
\* parseable candidate timestamps, and 0 for a record that has none (none
\* set, only None, or only text that does not parse).
C36_FreshnessFromNewestTimestamp ==
    [][(analysis' # analysis /\ analysis'.stored) =>
          analysis'.metrics.freshness
            = Mean([i \in 1..Len(analysis'.data) |->
                      FreshnessOfNewest(analysis'.data[i], now)])]_vars

\* C37: any two requests a fetcher sent are at least RATE_LIMIT_DELAY
\* seconds apart (6 without an API key, 1 with one), however the callers
\* that share it interleave.
C37_RequestsSpaced ==
    /\ limiter.RATE_LIMIT_DELAY \in {1, 6}
    /\ \A i \in 1..Len(limiter.requests) : \A j \in 1..Len(limiter.requests) :
          i < j => limiter.requests[j].at - limiter.requests[i].at
                     >= limiter.RATE_LIMIT_DELAY

C40_CountersMatchIndex ==
    (pc = "idle" /\ hist.cycles > 0 /\ hist.outcome \in {"returned", "raised"}) =>
        /\ stats.total_items_fetched
              = stats.total_unique_items + stats.total_duplicates
        /\ stats.total_unique_items = Cardinality(exact_hashes)
====
